---- MODULE Spec2Model ----
(***************************************************************************)
(* Model of the DirectX console render engine (DxEngine, DxRenderer.cpp):  *)
(* the invalidation tracker, the paint session state machine and the       *)
(* presentation plan.  Every engine operation is a pure operator from the  *)
(* engine's fields (a record) and the environment's answers to a result    *)
(* [eng, hr, ev]: the fields afterwards, the HRESULT returned and the      *)
(* sequence of calls made on the device objects.  The actions apply the    *)
(* operators to the variables, one variable per field.                     *)
(***************************************************************************)
EXTENDS Integers, Sequences, FiniteSets, TLC

\* ------------------------------------------------------------------------
\* Bounds of the model
\* ------------------------------------------------------------------------

\* Largest cell coordinate a caller passes to Invalidate / InvalidateCursor.
MaxCell == 1

\* Largest cell column invalidated in the session specification.
MaxSessionCell == 1

\* Largest absolute value the scroll accumulator may reach, in pixels.
MaxScroll == 1

\* The same in the session specification.
MaxSessionScroll == 1

\* Longest continuation of calls looked at when asking whether a session can
\* be opened again.
MaxContinuation == 3

\* ------------------------------------------------------------------------
\* Win32 RECT, SIZE, POINT and the rectangle functions the engine calls
\* ------------------------------------------------------------------------

Max(a, b) == IF a >= b THEN a ELSE b

Min(a, b) == IF a <= b THEN a ELSE b

Rect(l, t, r, b) == [left |-> l, top |-> t, right |-> r, bottom |-> b]

ZeroRect == Rect(0, 0, 0, 0)

ZeroSize == [cx |-> 0, cy |-> 0]

ZeroPoint == [x |-> 0, y |-> 0]

IsRectEmpty(r) == r.right <= r.left \/ r.bottom <= r.top

OffsetRect(r, dx, dy) == Rect(r.left + dx, r.top + dy, r.right + dx, r.bottom + dy)

\* The destination is all zero when either source is empty or they do not meet.
IntersectRect(a, b) ==
    IF \/ IsRectEmpty(a) \/ IsRectEmpty(b)
       \/ a.left >= b.right \/ b.left >= a.right
       \/ a.top >= b.bottom \/ b.top >= a.bottom
    THEN ZeroRect
    ELSE Rect(Max(a.left, b.left), Max(a.top, b.top),
              Min(a.right, b.right), Min(a.bottom, b.bottom))

\* The bounding rectangle; an empty source is ignored, two empty sources give zero.
UnionRect(a, b) ==
    IF IsRectEmpty(a)
    THEN (IF IsRectEmpty(b) THEN ZeroRect ELSE b)
    ELSE IF IsRectEmpty(b)
         THEN a
         ELSE Rect(Min(a.left, b.left), Min(a.top, b.top),
                   Max(a.right, b.right), Max(a.bottom, b.bottom))

\* a minus b: b is cut from a only when it spans a completely in x or in y and
\* touches one of the two other edges; otherwise the result is a itself.
SubtractRect(a, b) ==
    IF IsRectEmpty(a)
    THEN ZeroRect
    ELSE LET tmp == IntersectRect(a, b)
         IN  IF IsRectEmpty(tmp)
             THEN a
             ELSE IF tmp = a
                  THEN ZeroRect
                  ELSE IF tmp.top = a.top /\ tmp.bottom = a.bottom
                       THEN (IF tmp.left = a.left
                             THEN [a EXCEPT !.left = tmp.right]
                             ELSE IF tmp.right = a.right
                                  THEN [a EXCEPT !.right = tmp.left]
                                  ELSE a)
                       ELSE IF tmp.left = a.left /\ tmp.right = a.right
                            THEN (IF tmp.top = a.top
                                  THEN [a EXCEPT !.top = tmp.bottom]
                                  ELSE IF tmp.bottom = a.bottom
                                       THEN [a EXCEPT !.bottom = tmp.top]
                                       ELSE a)
                            ELSE a

\* ------------------------------------------------------------------------
\* HRESULTs, handles and the device objects
\* ------------------------------------------------------------------------

S_OK == "S_OK"

E_NOT_VALID_STATE == "E_NOT_VALID_STATE"

E_INVALIDARG == "E_INVALIDARG"

E_HANDLE == "E_HANDLE"

\* Any failure HRESULT a DirectX call gives.
E_FAIL == "E_FAIL"

SUCCEEDED(hr) == hr = S_OK

INVALID_HANDLE_VALUE == "INVALID_HANDLE_VALUE"

\* _presentParams as zero-initialised: no dirty rectangles, no scroll fields.
ZeroParams ==
    [DirtyRectsCount |-> 0, pDirtyRects |-> "nullptr",
     pScrollRect |-> "nullptr", pScrollOffset |-> "nullptr"]

\* What an operation hands back: the fields, the HRESULT, the device calls made,
\* and whether the process was ended (fail-fast or an access violation).
Result(e, hr, ev) == [eng |-> e, hr |-> hr, ev |-> ev, terminated |-> FALSE]

Terminated(e, ev) == [eng |-> e, hr |-> "FAIL_FAST", ev |-> ev, terminated |-> TRUE]

\* ------------------------------------------------------------------------
\* DxEngine
\* ------------------------------------------------------------------------

\* The colour of a brush: the colour channels as one value, and the opacity in
\* percent.
ColorF(rgb, a) == [rgb |-> rgb, a |-> a]

\* _d2dBrushForeground while it is reset: there is no brush.
NoBrush == ColorF("none", 0)

\* The fields after DxEngine::DxEngine().  d2dRenderTarget stands for the
\* device objects, which are created and reset together: "null", or the
\* render target with its draw batch closed ("idle") or open ("drawing").
\* brushForeground is the colour of _d2dBrushForeground.
DxEngine ==
    [isInvalidUsed |-> FALSE,
     invalidRect |-> ZeroRect,
     invalidScroll |-> ZeroSize,
     presentParams |-> ZeroParams,
     presentReady |-> FALSE,
     presentScroll |-> ZeroRect,
     presentDirty |-> ZeroRect,
     presentOffset |-> ZeroPoint,
     isEnabled |-> FALSE,
     isPainting |-> FALSE,
     displaySizePixels |-> ZeroSize,
     glyphCell |-> ZeroSize,
     haveDeviceResources |-> FALSE,
     hwndTarget |-> INVALID_HANDLE_VALUE,
     d2dRenderTarget |-> "null",
     brushForeground |-> NoBrush]

\* A faulty variant: the resource-valid flag is not reset.
ReleaseDeviceResources_FlagKept(e) ==
    LET endDraw == e.d2dRenderTarget # "null" /\ e.isPainting
    IN  [eng |-> [e EXCEPT !.d2dRenderTarget = "null", !.brushForeground = NoBrush],
         ev |-> (IF endDraw THEN <<"EndDraw">> ELSE <<>>) \o <<"Release">>]

\* A faulty variant: the batch of an open session is not ended.
ReleaseDeviceResources_BatchNotEnded(e) ==
    [eng |-> [e EXCEPT !.haveDeviceResources = FALSE, !.d2dRenderTarget = "null",
                       !.brushForeground = NoBrush],
     ev |-> <<"Release">>]

ReleaseDeviceResources(e) ==
    LET endDraw == e.d2dRenderTarget # "null" /\ e.isPainting
    IN  [eng |-> [e EXCEPT !.haveDeviceResources = FALSE, !.d2dRenderTarget = "null",
                           !.brushForeground = NoBrush],
         ev |-> (IF endDraw THEN <<"EndDraw">> ELSE <<>>) \o <<"Release">>]

\* A faulty variant: a failure after the client size is read leaves what was
\* created until then.
CreateDeviceResources_FailureNotReleased(e, clientSize, outcome) ==
    LET r0 == IF e.haveDeviceResources
              THEN ReleaseDeviceResources(e)
              ELSE [eng |-> e, ev |-> <<>>]
        sized == [r0.eng EXCEPT !.displaySizePixels = clientSize]
    IN  IF outcome = "failEarly"
        THEN LET f == ReleaseDeviceResources(r0.eng)
             IN  Result(f.eng, E_FAIL, r0.ev \o f.ev)
        ELSE IF outcome = "failLate"
             THEN Result([sized EXCEPT !.d2dRenderTarget = "idle"], E_FAIL, r0.ev)
             ELSE Result([sized EXCEPT !.haveDeviceResources = TRUE,
                                       !.d2dRenderTarget =
                                           IF e.isPainting THEN "drawing" ELSE "idle",
                                       !.brushForeground = ColorF("White", 100)],
                         S_OK,
                         r0.ev \o <<"Create">>
                               \o (IF e.isPainting THEN <<"BeginDraw">> ELSE <<>>))

\* outcome: "ok", "failEarly" (a step before the client size is read fails) or
\* "failLate" (a step after it fails); on failure freeOnFail releases everything.
CreateDeviceResources(e, clientSize, outcome) ==
    LET r0 == IF e.haveDeviceResources
              THEN ReleaseDeviceResources(e)
              ELSE [eng |-> e, ev |-> <<>>]
        sized == [r0.eng EXCEPT !.displaySizePixels = clientSize]
    IN  IF outcome = "failEarly"
        THEN LET f == ReleaseDeviceResources(r0.eng)
             IN  Result(f.eng, E_FAIL, r0.ev \o f.ev)
        ELSE IF outcome = "failLate"
             THEN LET f == ReleaseDeviceResources(sized)
                  IN  Result(f.eng, E_FAIL, r0.ev \o f.ev)
             ELSE Result([sized EXCEPT !.haveDeviceResources = TRUE,
                                       !.d2dRenderTarget =
                                           IF e.isPainting THEN "drawing" ELSE "idle",
                                       !.brushForeground = ColorF("White", 100)],
                         S_OK,
                         r0.ev \o <<"Create">>
                               \o (IF e.isPainting THEN <<"BeginDraw">> ELSE <<>>))

\* A faulty variant: the state the engine is already in is not checked for.
EnableDisplayAccess_StateUnchecked(e, outputEnabled) ==
    LET en == [e EXCEPT !.isEnabled = outputEnabled]
    IN  IF ~en.isEnabled
        THEN LET r == ReleaseDeviceResources(en)
             IN  Result(r.eng, S_OK, r.ev)
        ELSE Result(en, S_OK, <<>>)

EnableDisplayAccess(e, outputEnabled) ==
    IF outputEnabled = e.isEnabled
    THEN Result(e, E_NOT_VALID_STATE, <<>>)
    ELSE LET en == [e EXCEPT !.isEnabled = outputEnabled]
         IN  IF ~en.isEnabled
             THEN LET r == ReleaseDeviceResources(en)
                  IN  Result(r.eng, S_OK, r.ev)
             ELSE Result(en, S_OK, <<>>)

Enable(e) == EnableDisplayAccess(e, TRUE)

Disable(e) == EnableDisplayAccess(e, FALSE)

SetHwnd(e, hwnd) == Result([e EXCEPT !.hwndTarget = hwnd], S_OK, <<>>)

GetDisplayRect(e) == Rect(0, 0, e.displaySizePixels.cx, e.displaySizePixels.cy)

ScaleByFont(r, fontSize) ==
    Rect(r.left * fontSize.cx, r.top * fontSize.cy,
         r.right * fontSize.cx, r.bottom * fontSize.cy)

\* _InvalidOr(RECT)
InvalidOrRect(e, rc) ==
    IF e.isInvalidUsed
    THEN [e EXCEPT !.invalidRect =
                       IntersectRect(UnionRect(e.invalidRect, rc), GetDisplayRect(e))]
    ELSE [e EXCEPT !.invalidRect = rc, !.isInvalidUsed = TRUE]

\* A faulty variant: the right and bottom edges are not extended by one cell.
CellsToPixels_NotExtended(sr, glyphCell) ==
    ScaleByFont(Rect(sr.Left, sr.Top, sr.Right, sr.Bottom), glyphCell)

\* The pixel rectangle _InvalidOr(SMALL_RECT) passes on.
CellsToPixels(sr, glyphCell) ==
    LET region == ScaleByFont(Rect(sr.Left, sr.Top, sr.Right, sr.Bottom), glyphCell)
    IN  [region EXCEPT !.right = @ + glyphCell.cx, !.bottom = @ + glyphCell.cy]

\* _InvalidOr(SMALL_RECT)
InvalidOrSmallRect(e, sr) == InvalidOrRect(e, CellsToPixels(sr, e.glyphCell))

InvalidOffset(e, delta) ==
    IF e.isInvalidUsed
    THEN [e EXCEPT !.invalidRect =
                       IntersectRect(OffsetRect(e.invalidRect, delta.x, delta.y),
                                     GetDisplayRect(e))]
    ELSE e

Invalidate(e, sr) == Result(InvalidOrSmallRect(e, sr), S_OK, <<>>)

\* Viewport::FromCoord(c).ToInclusive() is the one-cell rectangle at c.
InvalidateCursor(e, coord) ==
    Invalidate(e, [Left |-> coord.X, Top |-> coord.Y, Right |-> coord.X, Bottom |-> coord.Y])

InvalidateSystem(e, rc) == Result(InvalidOrRect(e, rc), S_OK, <<>>)

RECURSIVE InvalidateSelectionFrom(_, _, _)
InvalidateSelectionFrom(e, rectangles, i) ==
    IF i > Len(rectangles)
    THEN e
    ELSE InvalidateSelectionFrom(Invalidate(e, rectangles[i]).eng, rectangles, i + 1)

InvalidateSelection(e, rectangles) ==
    Result(InvalidateSelectionFrom(e, rectangles, 1), S_OK, <<>>)

\* A faulty variant: the display rectangle is joined to the dirty rectangle
\* and the result is not cut to the display.
InvalidateAll_NotCut(e) ==
    Result([e EXCEPT !.invalidRect = UnionRect(e.invalidRect, GetDisplayRect(e)),
                     !.isInvalidUsed = TRUE],
           S_OK, <<>>)

InvalidateAll(e) == Result(InvalidOrRect(e, GetDisplayRect(e)), S_OK, <<>>)

\* display minus (display shifted by (dx, dy), cut to the display)
Reveal(display, dx, dy) ==
    SubtractRect(display, IntersectRect(OffsetRect(display, dx, dy), display))

\* A faulty variant: the zero delta is not let through untouched.
InvalidateScroll_ZeroDeltaApplied(e, coordDelta) ==
    LET delta == [x |-> coordDelta.X * e.glyphCell.cx,
                  y |-> coordDelta.Y * e.glyphCell.cy]
        e1 == InvalidOffset(e, delta)
        e2 == [e1 EXCEPT !.invalidScroll =
                             [cx |-> @.cx + delta.x, cy |-> @.cy + delta.y]]
        display == GetDisplayRect(e2)
        revealX == Reveal(display, delta.x, 0)
        e3 == IF ~IsRectEmpty(revealX) THEN InvalidOrRect(e2, revealX) ELSE e2
        revealY == Reveal(display, 0, delta.y)
        e4 == IF ~IsRectEmpty(revealY) THEN InvalidOrRect(e3, revealY) ELSE e3
    IN  Result(e4, S_OK, <<>>)

\* A faulty variant: the rectangle revealed by the vertical part of the
\* scroll is left out.
InvalidateScroll_VerticalRevealDropped(e, coordDelta) ==
    IF coordDelta.X # 0 \/ coordDelta.Y # 0
    THEN LET delta == [x |-> coordDelta.X * e.glyphCell.cx,
                       y |-> coordDelta.Y * e.glyphCell.cy]
             e1 == InvalidOffset(e, delta)
             e2 == [e1 EXCEPT !.invalidScroll =
                                  [cx |-> @.cx + delta.x, cy |-> @.cy + delta.y]]
             display == GetDisplayRect(e2)
             revealX == Reveal(display, delta.x, 0)
             e3 == IF ~IsRectEmpty(revealX) THEN InvalidOrRect(e2, revealX) ELSE e2
         IN  Result(e3, S_OK, <<>>)
    ELSE Result(e, S_OK, <<>>)

\* A faulty variant: the accumulator takes the delta of the call instead of
\* adding it.
InvalidateScroll_AccumulatorOverwritten(e, coordDelta) ==
    IF coordDelta.X # 0 \/ coordDelta.Y # 0
    THEN LET delta == [x |-> coordDelta.X * e.glyphCell.cx,
                       y |-> coordDelta.Y * e.glyphCell.cy]
             e1 == InvalidOffset(e, delta)
             e2 == [e1 EXCEPT !.invalidScroll = [cx |-> delta.x, cy |-> delta.y]]
             display == GetDisplayRect(e2)
             revealX == Reveal(display, delta.x, 0)
             e3 == IF ~IsRectEmpty(revealX) THEN InvalidOrRect(e2, revealX) ELSE e2
             revealY == Reveal(display, 0, delta.y)
             e4 == IF ~IsRectEmpty(revealY) THEN InvalidOrRect(e3, revealY) ELSE e3
         IN  Result(e4, S_OK, <<>>)
    ELSE Result(e, S_OK, <<>>)

\* A faulty variant: the rectangle the horizontal part reveals is not marked.
InvalidateScroll_HorizontalRevealDropped(e, coordDelta) ==
    IF coordDelta.X # 0 \/ coordDelta.Y # 0
    THEN LET delta == [x |-> coordDelta.X * e.glyphCell.cx,
                       y |-> coordDelta.Y * e.glyphCell.cy]
             e1 == InvalidOffset(e, delta)
             e2 == [e1 EXCEPT !.invalidScroll =
                                  [cx |-> @.cx + delta.x, cy |-> @.cy + delta.y]]
             display == GetDisplayRect(e2)
             revealY == Reveal(display, 0, delta.y)
             e4 == IF ~IsRectEmpty(revealY) THEN InvalidOrRect(e2, revealY) ELSE e2
         IN  Result(e4, S_OK, <<>>)
    ELSE Result(e, S_OK, <<>>)

InvalidateScroll(e, coordDelta) ==
    IF coordDelta.X # 0 \/ coordDelta.Y # 0
    THEN LET delta == [x |-> coordDelta.X * e.glyphCell.cx,
                       y |-> coordDelta.Y * e.glyphCell.cy]
             e1 == InvalidOffset(e, delta)
             e2 == [e1 EXCEPT !.invalidScroll =
                                  [cx |-> @.cx + delta.x, cy |-> @.cy + delta.y]]
             display == GetDisplayRect(e2)
             revealX == Reveal(display, delta.x, 0)
             e3 == IF ~IsRectEmpty(revealX) THEN InvalidOrRect(e2, revealX) ELSE e2
             revealY == Reveal(display, 0, delta.y)
             e4 == IF ~IsRectEmpty(revealY) THEN InvalidOrRect(e3, revealY) ELSE e3
         IN  Result(e4, S_OK, <<>>)
    ELSE Result(e, S_OK, <<>>)

\* A faulty variant: the open session is not checked for.
StartPaint_SessionUnchecked(e, clientSize, outcome) ==
    IF e.hwndTarget = INVALID_HANDLE_VALUE
    THEN Result(e, E_HANDLE, <<>>)
    ELSE IF e.isEnabled
         THEN LET needed == \/ ~e.haveDeviceResources
                            \/ e.displaySizePixels.cy # clientSize.cy
                            \/ e.displaySizePixels.cx # clientSize.cx
                  c == IF needed
                       THEN CreateDeviceResources(e, clientSize, outcome)
                       ELSE Result(e, S_OK, <<>>)
              IN  IF ~SUCCEEDED(c.hr)
                  THEN c
                  ELSE Result([c.eng EXCEPT !.d2dRenderTarget = "drawing",
                                            !.isPainting = TRUE],
                              S_OK, c.ev \o <<"BeginDraw">>)
         ELSE Result(e, S_OK, <<>>)

\* A faulty variant: the target window is not checked for.
StartPaint_HandleUnchecked(e, clientSize, outcome) ==
    IF e.isPainting
    THEN Result(e, E_NOT_VALID_STATE, <<>>)
    ELSE IF e.isEnabled
         THEN LET needed == \/ ~e.haveDeviceResources
                            \/ e.displaySizePixels.cy # clientSize.cy
                            \/ e.displaySizePixels.cx # clientSize.cx
                  c == IF needed
                       THEN CreateDeviceResources(e, clientSize, outcome)
                       ELSE Result(e, S_OK, <<>>)
              IN  IF ~SUCCEEDED(c.hr)
                  THEN c
                  ELSE Result([c.eng EXCEPT !.d2dRenderTarget = "drawing",
                                            !.isPainting = TRUE],
                              S_OK, c.ev \o <<"BeginDraw">>)
         ELSE Result(e, S_OK, <<>>)

\* A faulty variant: the client size is not compared with the display size.
StartPaint_SizeIgnored(e, clientSize, outcome) ==
    IF e.hwndTarget = INVALID_HANDLE_VALUE
    THEN Result(e, E_HANDLE, <<>>)
    ELSE IF e.isPainting
         THEN Result(e, E_NOT_VALID_STATE, <<>>)
         ELSE IF e.isEnabled
              THEN LET c == IF ~e.haveDeviceResources
                            THEN CreateDeviceResources(e, clientSize, outcome)
                            ELSE Result(e, S_OK, <<>>)
                   IN  IF ~SUCCEEDED(c.hr)
                       THEN c
                       ELSE Result([c.eng EXCEPT !.d2dRenderTarget = "drawing",
                                                 !.isPainting = TRUE],
                                   S_OK, c.ev \o <<"BeginDraw">>)
              ELSE Result(e, S_OK, <<>>)

\* A faulty variant: the session is opened whether the engine is enabled or
\* not.
StartPaint_EnabledUnchecked(e, clientSize, outcome) ==
    IF e.hwndTarget = INVALID_HANDLE_VALUE
    THEN Result(e, E_HANDLE, <<>>)
    ELSE IF e.isPainting
         THEN Result(e, E_NOT_VALID_STATE, <<>>)
         ELSE LET needed == \/ ~e.haveDeviceResources
                            \/ e.displaySizePixels.cy # clientSize.cy
                            \/ e.displaySizePixels.cx # clientSize.cx
                  c == IF needed
                       THEN CreateDeviceResources(e, clientSize, outcome)
                       ELSE Result(e, S_OK, <<>>)
              IN  IF ~SUCCEEDED(c.hr)
                  THEN c
                  ELSE Result([c.eng EXCEPT !.d2dRenderTarget = "drawing",
                                            !.isPainting = TRUE],
                              S_OK, c.ev \o <<"BeginDraw">>)

StartPaint(e, clientSize, outcome) ==
    IF e.hwndTarget = INVALID_HANDLE_VALUE
    THEN Result(e, E_HANDLE, <<>>)
    ELSE IF e.isPainting
         THEN Result(e, E_NOT_VALID_STATE, <<>>)
         ELSE IF e.isEnabled
              THEN LET needed == \/ ~e.haveDeviceResources
                                 \/ e.displaySizePixels.cy # clientSize.cy
                                 \/ e.displaySizePixels.cx # clientSize.cx
                       c == IF needed
                            THEN CreateDeviceResources(e, clientSize, outcome)
                            ELSE Result(e, S_OK, <<>>)
                   IN  IF ~SUCCEEDED(c.hr)
                       THEN c
                       ELSE Result([c.eng EXCEPT !.d2dRenderTarget = "drawing",
                                                 !.isPainting = TRUE],
                                   S_OK, c.ev \o <<"BeginDraw">>)
              ELSE Result(e, S_OK, <<>>)

\* A faulty variant: the scroll fields are kept when the scroll rectangle is
\* empty.
ScrollPlan_EmptyScrollKept(e) ==
    [e EXCEPT !.presentDirty = e.invalidRect,
              !.presentScroll = SubtractRect(GetDisplayRect(e), e.invalidRect),
              !.presentOffset = [x |-> e.invalidScroll.cx, y |-> e.invalidScroll.cy],
              !.presentParams =
                  [DirtyRectsCount |-> 1,
                   pDirtyRects |-> "presentDirty",
                   pScrollRect |-> "presentScroll",
                   pScrollOffset |-> "presentOffset"]]

\* The presentation plan of a frame that scrolled (the body of the
\* "if (_invalidScroll.cy != 0 || _invalidScroll.cx != 0)" in EndPaint).
ScrollPlan(e) ==
    LET scroll == SubtractRect(GetDisplayRect(e), e.invalidRect)
        empty == IsRectEmpty(scroll)
    IN  [e EXCEPT !.presentDirty = e.invalidRect,
                  !.presentScroll = scroll,
                  !.presentOffset = [x |-> e.invalidScroll.cx, y |-> e.invalidScroll.cy],
                  !.presentParams =
                      [DirtyRectsCount |-> 1,
                       pDirtyRects |-> "presentDirty",
                       pScrollRect |-> IF empty THEN "nullptr" ELSE "presentScroll",
                       pScrollOffset |-> IF empty THEN "nullptr" ELSE "presentOffset"]]

\* A faulty variant: the scroll accumulator is not reset.
ClearInvalid_ScrollKept(e) ==
    [e EXCEPT !.invalidRect = ZeroRect, !.isInvalidUsed = FALSE]

\* The tail of EndPaint: the invalidation tracker is cleared.
ClearInvalid(e) ==
    [e EXCEPT !.invalidRect = ZeroRect, !.isInvalidUsed = FALSE, !.invalidScroll = ZeroSize]

\* The invalidation tracker of e is clear.
TrackerClear(e) ==
    /\ e.invalidRect = ZeroRect
    /\ ~e.isInvalidUsed
    /\ e.invalidScroll = ZeroSize

\* endDraw: the HRESULT of _d2dRenderTarget->EndDraw().
EndPaint(e, endDraw) ==
    IF ~e.isPainting
    THEN Result(e, E_INVALIDARG, <<>>)
    ELSE IF e.haveDeviceResources
         THEN LET closed == [e EXCEPT !.isPainting = FALSE, !.d2dRenderTarget = "idle"]
              IN  IF SUCCEEDED(endDraw)
                  THEN LET planned == IF e.invalidScroll.cy # 0 \/ e.invalidScroll.cx # 0
                                      THEN ScrollPlan(closed)
                                      ELSE closed
                       IN  Result(ClearInvalid([planned EXCEPT !.presentReady = TRUE]),
                                  endDraw, <<"EndDraw">>)
                  ELSE LET r == ReleaseDeviceResources([closed EXCEPT !.presentReady = FALSE])
                       IN  Result(ClearInvalid(r.eng), endDraw, <<"EndDraw">> \o r.ev)
         ELSE Result(ClearInvalid(e), S_OK, <<>>)

\* The plan cleared after a presentation.
ClearPlan(e) ==
    [e EXCEPT !.presentReady = FALSE, !.presentDirty = ZeroRect,
              !.presentOffset = ZeroPoint, !.presentScroll = ZeroRect,
              !.presentParams = ZeroParams]

\* A faulty variant: the plan stays ready after it was presented.
Present_PlanKept(e, present1, copy) ==
    IF e.presentReady
    THEN LET chain == e.d2dRenderTarget # "null"
             ev == IF chain THEN <<"Present1">> ELSE <<>>
         IN  IF present1 # "ok"
             THEN Terminated(e, ev)
             ELSE IF ~SUCCEEDED(copy)
                  THEN Result(e, copy, ev)
                  ELSE Result([ClearPlan(e) EXCEPT !.presentReady = TRUE], S_OK,
                              ev \o (IF chain THEN <<"CopyResource">> ELSE <<>>))
    ELSE Result(e, S_OK, <<>>)

\* A faulty variant: the presentation also takes the dirty region with it.
Present_TrackerCleared(e, present1, copy) ==
    IF e.presentReady
    THEN LET chain == e.d2dRenderTarget # "null"
             ev == IF chain THEN <<"Present1">> ELSE <<>>
         IN  IF present1 # "ok"
             THEN Terminated(e, ev)
             ELSE IF ~SUCCEEDED(copy)
                  THEN Result(e, copy, ev)
                  ELSE Result(ClearInvalid(ClearPlan(e)), S_OK,
                              ev \o (IF chain THEN <<"CopyResource">> ELSE <<>>))
    ELSE Result(e, S_OK, <<>>)

\* present1: what Present1 does ("ok", "fail"); copy: what _CopyFrontToBack gives.
\* With the swap chain reset, Present1 is called through a null pointer: the
\* process ends ("crash") or the call comes back ("ok", "fail") without a frame.
Present(e, present1, copy) ==
    IF e.presentReady
    THEN LET chain == e.d2dRenderTarget # "null"
             ev == IF chain THEN <<"Present1">> ELSE <<>>
         IN  IF present1 # "ok"
             THEN Terminated(e, ev)
             ELSE IF ~SUCCEEDED(copy)
                  THEN Result(e, copy, ev)
                  ELSE Result(ClearPlan(e), S_OK,
                              ev \o (IF chain THEN <<"CopyResource">> ELSE <<>>))
    ELSE Result(e, S_OK, <<>>)

\* ------------------------------------------------------------------------
\* The paint calls.  None of them looks at _isPainting or at
\* _haveDeviceResources: each goes straight to the render target and the
\* brushes, which are null while the device resources are released.
\* ------------------------------------------------------------------------

\* The calls on the render target that draw.
DrawCalls == {"FillRectangle", "DrawRectangle", "DrawLine", "DrawGlyphRun", "DrawTextLayout"}

\* A method called through a null device object: the process ends ("crash")
\* or the call comes back having done nothing ("return").
NullCalls == {"crash", "return"}

\* The paint call's outcome when its first device call goes through a null
\* pointer.
NullCall(e, deref) ==
    IF deref = "crash" THEN Terminated(e, <<>>) ELSE Result(e, S_OK, <<>>)

PaintBackground(e, deref) ==
    IF e.d2dRenderTarget = "null"
    THEN NullCall(e, deref)
    ELSE Result(e, S_OK, <<"FillRectangle">>)

\* The advances of the glyph run of the fast path: one per character, each the
\* width of the glyph cell.
GlyphAdvances(cchLine, glyphCell) == [i \in 1..cchLine |-> glyphCell.cx]

\* A faulty variant: the length the query consumed is not looked at.
PaintBufferLine_LengthIgnored(e, cchLine, complexity, isTextSimple, textLengthRead, layout, deref) ==
    IF e.d2dRenderTarget = "null"
    THEN NullCall(e, deref)
    ELSE IF ~SUCCEEDED(complexity)
         THEN Result(e, complexity, <<"FillRectangle">>)
         ELSE IF isTextSimple
              THEN Result(e, S_OK, <<"FillRectangle", "DrawGlyphRun">>)
              ELSE IF ~SUCCEEDED(layout)
                   THEN Result(e, layout, <<"FillRectangle">>)
                   ELSE Result(e, S_OK, <<"FillRectangle", "DrawTextLayout">>)

\* complexity: the HRESULT of GetTextComplexity; isTextSimple, textLengthRead:
\* what it reports; layout: the HRESULT of _CreateTextLayout.
PaintBufferLine(e, cchLine, complexity, isTextSimple, textLengthRead, layout, deref) ==
    IF e.d2dRenderTarget = "null"
    THEN NullCall(e, deref)
    ELSE IF ~SUCCEEDED(complexity)
         THEN Result(e, complexity, <<"FillRectangle">>)
         ELSE IF isTextSimple /\ textLengthRead = cchLine
              THEN Result(e, S_OK, <<"FillRectangle", "DrawGlyphRun">>)
              ELSE IF ~SUCCEEDED(layout)
                   THEN Result(e, layout, <<"FillRectangle">>)
                   ELSE Result(e, S_OK, <<"FillRectangle", "DrawTextLayout">>)

\* The DrawLine calls of one cell: one per edge asked for.
GridLinesOfCell(lines) ==
    (IF "Top" \in lines THEN <<"DrawLine">> ELSE <<>>)
        \o (IF "Left" \in lines THEN <<"DrawLine">> ELSE <<>>)
        \o (IF "Bottom" \in lines THEN <<"DrawLine">> ELSE <<>>)
        \o (IF "Right" \in lines THEN <<"DrawLine">> ELSE <<>>)

RECURSIVE GridLinesOfRun(_, _)
GridLinesOfRun(lines, cchLine) ==
    IF cchLine = 0
    THEN <<>>
    ELSE GridLinesOfCell(lines) \o GridLinesOfRun(lines, cchLine - 1)

\* _d2dBrushForeground->SetColor(color)
SetColor(e, color) == [e EXCEPT !.brushForeground = color]

\* The colour the grid lines are drawn in: D2D1::ColorF(color).
GridLineColor == ColorF("GridLine", 100)

\* A faulty variant: the colour of the foreground brush is not restored.
PaintBufferGridLines_ColorKept(e, lines, cchLine, deref) ==
    IF e.d2dRenderTarget = "null"
    THEN NullCall(e, deref)
    ELSE Result(SetColor(e, GridLineColor), S_OK,
                <<"SetColor">> \o GridLinesOfRun(lines, cchLine))

\* The foreground brush is given the line colour, and the colour it had is
\* restored on the way out (restoreBrushOnExit).
PaintBufferGridLines(e, lines, cchLine, deref) ==
    IF e.d2dRenderTarget = "null"
    THEN NullCall(e, deref)
    ELSE LET existingColor == e.brushForeground
             lined == SetColor(e, GridLineColor)
             restored == SetColor(lined, existingColor)
         IN  Result(restored, S_OK,
                    <<"SetColor">> \o GridLinesOfRun(lines, cchLine) \o <<"SetColor">>)

\* The colour the selection is filled in: the foreground colour at half
\* opacity.
SelectionColor(existingColor) == ColorF(existingColor.rgb, 50)

\* The foreground brush is given the selection colour, and the colour it had
\* is restored on the way out (resetColorOnExit).
PaintSelection(e, deref) ==
    IF e.d2dRenderTarget = "null"
    THEN NullCall(e, deref)
    ELSE LET existingColor == e.brushForeground
             tinted == SetColor(e, SelectionColor(existingColor))
             restored == SetColor(tinted, existingColor)
         IN  Result(restored, S_OK, <<"SetColor", "FillRectangle", "SetColor">>)

\* The pixel rectangle PaintSelection fills for the cell rectangle rect.
SelectionRect(rect, glyphCell) ==
    Rect(rect.Left * glyphCell.cx, rect.Top * glyphCell.cy,
         rect.Right * glyphCell.cx, rect.Bottom * glyphCell.cy)

\* The default brush colours are set; the brushes are null while the device
\* resources are released.
UpdateDrawingBrushes(e, colorForeground, deref) ==
    IF e.d2dRenderTarget = "null"
    THEN NullCall(e, deref)
    ELSE Result(SetColor(e, ColorF(colorForeground, 100)), S_OK, <<"SetColor", "SetColor">>)

E_NOTIMPL == "E_NOTIMPL"

CursorTypes == {"Legacy", "VerticalBar", "Underscore", "EmptyBox", "FullBox"}

\* The range the height of the Legacy cursor is kept in, in percent of the
\* cell's height.
s_ulMinCursorHeightPercent == 25

s_ulMaxCursorHeightPercent == 100

\* std::clamp
Clamp(v, lo, hi) == IF v < lo THEN lo ELSE IF hi < v THEN hi ELSE v

CursorRect_PercentNotClamped(coordCursor, ulCursorHeightPercent, fIsDoubleWidth, cursorType, glyphCell) ==
    LET left == coordCursor.X * glyphCell.cx
        top == coordCursor.Y * glyphCell.cy
        base == Rect(left, top,
                     left + glyphCell.cx + (IF fIsDoubleWidth THEN glyphCell.cx ELSE 0),
                     top + glyphCell.cy)
    IN  CASE cursorType = "Legacy" ->
                 [base EXCEPT !.top = base.bottom - ((glyphCell.cy * ulCursorHeightPercent) \div 100)]
          [] cursorType = "VerticalBar" -> [base EXCEPT !.right = base.left + 1]
          [] cursorType = "Underscore" -> [base EXCEPT !.top = base.bottom - 1]
          [] OTHER -> base

\* The rectangle PaintCursor draws for a cursor of a known type.
CursorRect(coordCursor, ulCursorHeightPercent, fIsDoubleWidth, cursorType, glyphCell) ==
    LET left == coordCursor.X * glyphCell.cx
        top == coordCursor.Y * glyphCell.cy
        base == Rect(left, top,
                     left + glyphCell.cx + (IF fIsDoubleWidth THEN glyphCell.cx ELSE 0),
                     top + glyphCell.cy)
    IN  CASE cursorType = "Legacy" ->
                 LET ulHeight == Clamp(ulCursorHeightPercent, s_ulMinCursorHeightPercent,
                                       s_ulMaxCursorHeightPercent)
                 IN  [base EXCEPT !.top = base.bottom - ((glyphCell.cy * ulHeight) \div 100)]
          [] cursorType = "VerticalBar" -> [base EXCEPT !.right = base.left + 1]
          [] cursorType = "Underscore" -> [base EXCEPT !.top = base.bottom - 1]
          [] OTHER -> base

PaintCursor_OutlineFilled(e, cursorType, fUseColor, createBrush, deref) ==
    IF cursorType \notin CursorTypes
    THEN Result(e, E_NOTIMPL, <<>>)
    ELSE IF e.d2dRenderTarget = "null"
         THEN NullCall(e, deref)
         ELSE LET brush == IF fUseColor THEN <<"CreateSolidColorBrush">> ELSE <<>>
              IN  IF fUseColor /\ ~SUCCEEDED(createBrush)
                  THEN Result(e, createBrush, brush)
                  ELSE Result(e, S_OK, brush \o <<"FillRectangle">>)

\* createBrush: the HRESULT of CreateSolidColorBrush, called when fUseColor.
PaintCursor(e, cursorType, fUseColor, createBrush, deref) ==
    IF cursorType \notin CursorTypes
    THEN Result(e, E_NOTIMPL, <<>>)
    ELSE IF e.d2dRenderTarget = "null"
         THEN NullCall(e, deref)
         ELSE LET brush == IF fUseColor THEN <<"CreateSolidColorBrush">> ELSE <<>>
              IN  IF fUseColor /\ ~SUCCEEDED(createBrush)
                  THEN Result(e, createBrush, brush)
                  ELSE Result(e, S_OK,
                              brush \o (IF cursorType = "EmptyBox"
                                        THEN <<"DrawRectangle">>
                                        ELSE <<"FillRectangle">>))

\* The quotient of two LONGs, rounded towards zero as C++ rounds it.
LongDiv(a, b) ==
    IF (a >= 0) = (b >= 0)
    THEN (IF a >= 0 THEN a ELSE -a) \div (IF b >= 0 THEN b ELSE -b)
    ELSE -((IF a >= 0 THEN a ELSE -a) \div (IF b >= 0 THEN b ELSE -b))

\* The conversion to SHORT of a value that was floored as a double.
ToShort(v) == ((v + 32768) % 65536) - 32768

\* GetDirtyRectInChars, for a glyph cell that is not zero: each edge of the
\* dirty rectangle is divided by the cell size, as integers, and the right
\* and bottom edges are then made inclusive.
GetDirtyRectInChars(e) ==
    [Top |-> ToShort(LongDiv(e.invalidRect.top, e.glyphCell.cy)),
     Left |-> ToShort(LongDiv(e.invalidRect.left, e.glyphCell.cx)),
     Bottom |-> ToShort(ToShort(LongDiv(e.invalidRect.bottom, e.glyphCell.cy)) - 1),
     Right |-> ToShort(ToShort(LongDiv(e.invalidRect.right, e.glyphCell.cx)) - 1)]

\* UpdateFont: the glyph cell is set from the font found; any step before that
\* may throw, and the cell is then left as it was.
UpdateFont(e, cell, hr) ==
    IF SUCCEEDED(hr)
    THEN Result([e EXCEPT !.glyphCell = cell], S_OK, <<>>)
    ELSE Result(e, hr, <<>>)

\* ------------------------------------------------------------------------
\* Inputs of the calls
\* ------------------------------------------------------------------------

\* Client sizes of the target window, in pixels.
ClientSizes == {[cx |-> 2, cy |-> 2], [cx |-> 3, cy |-> 1]}

\* Glyph cell sizes UpdateFont may settle on, in pixels.
FontSizes == {[cx |-> 1, cy |-> 1], [cx |-> 2, cy |-> 1]}

Handles == {"hwnd", INVALID_HANDLE_VALUE}

CreateOutcomes == {"ok", "failEarly", "failLate"}

HResults == {S_OK, E_FAIL}

PresentOutcomes == {"ok", "fail"}

\* Inclusive cell rectangles with both corners in 0..MaxCell.
CellRects ==
    {[Left |-> l, Top |-> t, Right |-> r, Bottom |-> b] :
        l \in 0..MaxCell, t \in 0..MaxCell, r \in 0..MaxCell, b \in 0..MaxCell}
    \ {sr \in [Left : 0..MaxCell, Top : 0..MaxCell, Right : 0..MaxCell, Bottom : 0..MaxCell] :
        sr.Right < sr.Left \/ sr.Bottom < sr.Top}

CellCoords == [X : 0..MaxCell, Y : 0..MaxCell]

\* Scroll deltas in cells.
CellDeltas == [X : -1..1, Y : -1..1]

\* Pixel rectangles handed to InvalidateSystem: inside the display and not on
\* cell boundaries of every font, across its right and bottom edges, across
\* its left and top edges, and wholly outside it.
PixelRects == {Rect(0, 1, 1, 2), Rect(1, 1, 3, 3), Rect(-1, -1, 1, 1), Rect(3, 0, 4, 1)}

\* The client size of the window in the tracker specification.
TrackerSizes == {[cx |-> 2, cy |-> 2]}

\* The inputs of the session specification: one glyph cell size, the single
\* cells of row 0 up to MaxSessionCell, and scrolling right by one cell or not
\* at all.
SessionFonts == {[cx |-> 1, cy |-> 1]}

SessionRects ==
    {sr \in CellRects :
        sr.Top = 0 /\ sr.Bottom = 0 /\ sr.Left = sr.Right /\ sr.Right <= MaxSessionCell}

SessionDeltas == {[X |-> 0, Y |-> 0], [X |-> 1, Y |-> 0]}

\* Selections of one and of two rectangles.
Selections ==
    {<<a>> : a \in SessionRects}
        \cup {<<a, b>> : a \in SessionRects, b \in {sr \in SessionRects : sr.Left = 0}}

\* The inputs of the paint calls: runs of one and two cells, edges of the
\* grid, and the cursor styles with one that is not known.
RunLengths == {1, 2}

GridLineSets == {{}, {"Top"}, {"Left", "Right"}, {"Top", "Left", "Bottom", "Right"}}

CursorStyles == CursorTypes \cup {"Unknown"}

\* The inputs of the overlay painters: glyph cells of which one has a height
\* that the percentages do not divide, cursor heights in percent below, in and
\* above the range, and a foreground colour other than that of a new brush.
OverlayFonts == {[cx |-> 1, cy |-> 1], [cx |-> 2, cy |-> 7]}

HeightPercents == {0, 10, 60, 100, 150}

\* The cells of the diagonal, where the cursor is painted.
CursorCoords == {coord \in CellCoords : coord.X = coord.Y}

BrushColors == {"Red"}

\* ------------------------------------------------------------------------
\* WddmConEngine: the object's fields, the memory its row table points to,
\* and a record of what it has acquired and released
\* ------------------------------------------------------------------------

DEFAULT_COLOR_ATTRIBUTE == 12

E_OUTOFMEMORY == "E_OUTOFMEMORY"

\* A resource Initialize acquires: the display context, the row table, and
\* for row i the row's record and its Old and New buffers.
Resource(kind, row) == [kind |-> kind, row |-> row]

Context == Resource("context", 0)

Table == Resource("table", 0)

\* A character cell as calloc leaves it.
ZeroCell == [Character |-> "NUL", Atribute |-> 0]

Calloc(count) == [i \in 1..count |-> ZeroCell]

\* An entry of the row table as calloc leaves it: no row.
NoRow == [alloc |-> FALSE, Old |-> <<>>, New |-> <<>>]

\* The engine after construction.  rows is the memory of the row table (an
\* empty Old or New is a null buffer); acquired, released and releasedTwice
\* record the resources acquired, released, and released more than once;
\* stray tells that a cell outside a row's buffer was written.
WddmConEngine ==
    [hWddmConCtx |-> INVALID_HANDLE_VALUE,
     displayHeight |-> 0,
     displayWidth |-> 0,
     displayState |-> "nullptr",
     rows |-> <<>>,
     currentLegacyColorAttribute |-> DEFAULT_COLOR_ATTRIBUTE,
     acquired |-> {},
     released |-> {},
     releasedTwice |-> {},
     destructed |-> FALSE,
     stray |-> FALSE]

Acquire(w, res) == [w EXCEPT !.acquired = @ \cup {res}]

\* free, or WDDMConDestroy.
Release(w, res) ==
    IF res \in w.released
    THEN [w EXCEPT !.releasedTwice = @ \cup {res}]
    ELSE [w EXCEPT !.released = @ \cup {res}]

\* The body of the loop of FreeResources for the table entry i (from 1).
FreeRow(w, i) ==
    IF i > Len(w.rows) \/ ~w.rows[i].alloc
    THEN w
    ELSE LET old == IF w.rows[i].Old # <<>> THEN Release(w, Resource("Old", i - 1)) ELSE w
             new == IF w.rows[i].New # <<>> THEN Release(old, Resource("New", i - 1)) ELSE old
         IN  Release(new, Resource("row", i - 1))

RECURSIVE FreeRows(_, _, _)
FreeRows(w, i, displayHeight) ==
    IF i > displayHeight THEN w ELSE FreeRows(FreeRow(w, i), i + 1, displayHeight)

\* FreeResources frees what the pointers point to and leaves the pointers and
\* the handle as they are.  ub: what freeing the table a second time does,
\* ending the process ("crash") or coming back ("return").
WddmFreeResources(w, displayHeight, ub) ==
    LET hasTable == w.displayState # "nullptr"
        rowsFreed == IF hasTable THEN FreeRows(w, 1, displayHeight) ELSE w
        tableFreed == IF hasTable
                      THEN [Release(rowsFreed, Table) EXCEPT !.rows = <<>>]
                      ELSE rowsFreed
        destroyed == IF w.hWddmConCtx # INVALID_HANDLE_VALUE
                     THEN Release(tableFreed, Context)
                     ELSE tableFreed
    IN  IF hasTable /\ Table \in w.released /\ ub = "crash"
        THEN Terminated(tableFreed, <<>>)
        ELSE Result(destroyed, S_OK, <<>>)

\* ~WddmConEngine
WddmDestructor(w, ub) ==
    LET f == WddmFreeResources(w, w.displayHeight, ub)
    IN  [f EXCEPT !.eng = [@ EXCEPT !.destructed = TRUE]]

\* The table entry i (from 1) is given a row, and the row its buffers, old
\* and new telling whether calloc gave the buffer.
AllocRow(w, i, width, old, new) ==
    LET row == Acquire(w, Resource("row", i - 1))
        withOld == IF old THEN Acquire(row, Resource("Old", i - 1)) ELSE row
        withNew == IF new THEN Acquire(withOld, Resource("New", i - 1)) ELSE withOld
    IN  [withNew EXCEPT !.rows[i] = [alloc |-> TRUE,
                                     Old |-> IF old THEN Calloc(width) ELSE <<>>,
                                     New |-> IF new THEN Calloc(width) ELSE <<>>]]

RECURSIVE AllocRows(_, _, _, _)
AllocRows(w, i, count, width) ==
    IF i > count THEN w ELSE AllocRows(AllocRow(w, i, width, TRUE, TRUE), i + 1, count, width)

\* Initialize.  size: what WDDMConGetDisplaySize reports; fail: the step that
\* fails ("none", "WDDMConCreate", "WDDMConGetDisplaySize", "table", or "row",
\* "Old", "New" of the row fail.row).
WddmInitialize(w, size, fail, ub) ==
    IF w.hWddmConCtx # INVALID_HANDLE_VALUE
    THEN Result(w, E_HANDLE, <<>>)
    ELSE IF fail.step = "WDDMConCreate"
         THEN Result(w, E_FAIL, <<>>)
         ELSE LET created == Acquire([w EXCEPT !.hWddmConCtx = "context"], Context)
              IN  IF fail.step = "WDDMConGetDisplaySize"
                  THEN Result(Release(created, Context), E_FAIL, <<>>)
                  ELSE IF fail.step = "table"
                       THEN Result(Release(created, Context), E_OUTOFMEMORY, <<>>)
                       ELSE LET tabled ==
                                    Acquire([created EXCEPT
                                                 !.displayState = "table",
                                                 !.rows = [i \in 1..size.Height |-> NoRow]],
                                            Table)
                                failed == fail.step # "none" /\ fail.row < size.Height
                                whole == AllocRows(tabled, 1,
                                                   IF failed THEN fail.row ELSE size.Height,
                                                   size.Width)
                                broken == IF fail.step = "row"
                                          THEN whole
                                          ELSE AllocRow(whole, fail.row + 1, size.Width,
                                                        fail.step # "Old", fail.step # "New")
                            IN  IF failed
                                THEN LET f == WddmFreeResources(broken, size.Height, ub)
                                     IN  [f EXCEPT !.hr = IF f.terminated
                                                          THEN @ ELSE E_OUTOFMEMORY]
                                ELSE Result([whole EXCEPT !.displayHeight = size.Height,
                                                          !.displayWidth = size.Width],
                                            S_OK, <<>>)

\* PaintBackground: every cell's New goes to its Old and is blanked.
WddmPaintBackground(w) ==
    IF w.hWddmConCtx # INVALID_HANDLE_VALUE
    THEN Result([w EXCEPT !.rows =
                     [i \in 1..Len(w.rows) |->
                         IF i <= w.displayHeight
                         THEN [w.rows[i] EXCEPT
                                  !.Old = [c \in 1..Len(w.rows[i].Old) |->
                                              IF c <= w.displayWidth
                                              THEN w.rows[i].New[c] ELSE w.rows[i].Old[c]],
                                  !.New = [c \in 1..Len(w.rows[i].New) |->
                                              IF c <= w.displayWidth
                                              THEN [Character |-> " ", Atribute |-> 0]
                                              ELSE w.rows[i].New[c]]]
                         ELSE w.rows[i]]],
                S_OK, <<>>)
    ELSE Result(w, E_HANDLE, <<>>)

\* The cells PaintBufferLine writes, Old and New alike: row coord.Y,
\* columns coord.X + i for i below cchLine and below the display width.
WrittenCells(w, cchLine, coord) ==
    {[row |-> coord.Y, col |-> coord.X + i] : i \in 0..(Min(cchLine, w.displayWidth) - 1)}

\* PaintBufferLine, for a coordinate whose row exists.  update: what
\* WDDMConUpdateDisplay returns; oob: what a write past the end of the row's
\* buffers does, ending the process ("crash") or landing in other memory
\* ("stray").
WddmPaintBufferLine(w, pwsLine, cchLine, coord, update, oob) ==
    IF w.hWddmConCtx # INVALID_HANDLE_VALUE
    THEN LET written == WrittenCells(w, cchLine, coord)
             row == w.rows[coord.Y + 1]
             painted ==
                 [w EXCEPT !.rows[coord.Y + 1] =
                     [row EXCEPT
                         !.Old = [c \in 1..Len(row.Old) |->
                                     IF [row |-> coord.Y, col |-> c - 1] \in written
                                     THEN row.New[c] ELSE row.Old[c]],
                         !.New = [c \in 1..Len(row.New) |->
                                     IF [row |-> coord.Y, col |-> c - 1] \in written
                                     THEN [Character |-> pwsLine[c - coord.X],
                                           Atribute |-> w.currentLegacyColorAttribute]
                                     ELSE row.New[c]]]]
             outside == \E cell \in written : cell.col >= Len(row.New)
         IN  IF outside
             THEN IF oob = "crash"
                  THEN Terminated(w, <<>>)
                  ELSE Result([painted EXCEPT !.stray = TRUE], update, <<"WDDMConUpdateDisplay">>)
             ELSE Result(painted, update, <<"WDDMConUpdateDisplay">>)
    ELSE Result(w, E_HANDLE, <<>>)

\* GetDisplaySize
WddmGetDisplaySize(w) == Rect(0, 0, w.displayHeight, w.displayHeight)

\* The inputs of the WddmCon engine: the display sizes the driver reports,
\* the steps of Initialize that fail, and the lines painted.
DisplaySizes == [Width : {1, 2}, Height : {1, 2}]

InitializeFailures ==
    [step : {"none", "WDDMConCreate", "WDDMConGetDisplaySize", "table"}, row : {0}]
    \cup [step : {"row", "Old", "New"}, row : {0, 1}]

UndefinedOutcomes == {"crash", "return"}

OverflowOutcomes == {"crash", "stray"}

Lines == {<<"a">>, <<"a", "a">>, <<"a", "a", "a">>}

\* ------------------------------------------------------------------------
\* State: one variable per field of DxEngine, the last call made on the
\* engine, and whether the process has ended.
\* ------------------------------------------------------------------------

VARIABLES
    isInvalidUsed, invalidRect, invalidScroll,
    presentParams, presentReady, presentScroll, presentDirty, presentOffset,
    isEnabled, isPainting, displaySizePixels, glyphCell,
    haveDeviceResources, hwndTarget, d2dRenderTarget, brushForeground,
    wddm,
    last, terminated

fields ==
    <<isInvalidUsed, invalidRect, invalidScroll,
      presentParams, presentReady, presentScroll, presentDirty, presentOffset,
      isEnabled, isPainting, displaySizePixels, glyphCell,
      haveDeviceResources, hwndTarget, d2dRenderTarget, brushForeground>>

vars == <<fields, wddm, last, terminated>>

\* The engine's fields as one record.
Self ==
    [isInvalidUsed |-> isInvalidUsed,
     invalidRect |-> invalidRect,
     invalidScroll |-> invalidScroll,
     presentParams |-> presentParams,
     presentReady |-> presentReady,
     presentScroll |-> presentScroll,
     presentDirty |-> presentDirty,
     presentOffset |-> presentOffset,
     isEnabled |-> isEnabled,
     isPainting |-> isPainting,
     displaySizePixels |-> displaySizePixels,
     glyphCell |-> glyphCell,
     haveDeviceResources |-> haveDeviceResources,
     hwndTarget |-> hwndTarget,
     d2dRenderTarget |-> d2dRenderTarget,
     brushForeground |-> brushForeground]

\* The fields become those of record e.
Becomes(e) ==
    /\ isInvalidUsed' = e.isInvalidUsed
    /\ invalidRect' = e.invalidRect
    /\ invalidScroll' = e.invalidScroll
    /\ presentParams' = e.presentParams
    /\ presentReady' = e.presentReady
    /\ presentScroll' = e.presentScroll
    /\ presentDirty' = e.presentDirty
    /\ presentOffset' = e.presentOffset
    /\ isEnabled' = e.isEnabled
    /\ isPainting' = e.isPainting
    /\ displaySizePixels' = e.displaySizePixels
    /\ glyphCell' = e.glyphCell
    /\ haveDeviceResources' = e.haveDeviceResources
    /\ hwndTarget' = e.hwndTarget
    /\ d2dRenderTarget' = e.d2dRenderTarget
    /\ brushForeground' = e.brushForeground
    /\ wddm' = wddm

\* A call of operation op that gave result r.
Call(op, r) ==
    /\ ~terminated
    /\ Becomes(r.eng)
    /\ last' = [op |-> op, hr |-> r.hr, ev |-> r.ev]
    /\ terminated' = r.terminated

Init ==
    /\ isInvalidUsed = DxEngine.isInvalidUsed
    /\ invalidRect = DxEngine.invalidRect
    /\ invalidScroll = DxEngine.invalidScroll
    /\ presentParams = DxEngine.presentParams
    /\ presentReady = DxEngine.presentReady
    /\ presentScroll = DxEngine.presentScroll
    /\ presentDirty = DxEngine.presentDirty
    /\ presentOffset = DxEngine.presentOffset
    /\ isEnabled = DxEngine.isEnabled
    /\ isPainting = DxEngine.isPainting
    /\ displaySizePixels = DxEngine.displaySizePixels
    /\ glyphCell = DxEngine.glyphCell
    /\ haveDeviceResources = DxEngine.haveDeviceResources
    /\ hwndTarget = DxEngine.hwndTarget
    /\ d2dRenderTarget = DxEngine.d2dRenderTarget
    /\ brushForeground = DxEngine.brushForeground
    /\ wddm = WddmConEngine
    /\ last = [op |-> "DxEngine", hr |-> S_OK, ev |-> <<>>]
    /\ terminated = FALSE

\* ------------------------------------------------------------------------
\* Actions: one per call on the engine
\* ------------------------------------------------------------------------

CallSetHwnd(handles) == \E hwnd \in handles : Call("SetHwnd", SetHwnd(Self, hwnd))

CallEnable == Call("Enable", Enable(Self))

CallDisable == Call("Disable", Disable(Self))

CallUpdateFont(cells, results) ==
    \E cell \in cells, hr \in results : Call("UpdateFont", UpdateFont(Self, cell, hr))

\* clientSize: the target window's client size when StartPaint asks for it
\* (the window is resized by its user at any time between the calls).
CallStartPaint(sizes, outcomes) ==
    \E clientSize \in sizes, outcome \in outcomes :
        Call("StartPaint", StartPaint(Self, clientSize, outcome))

CallEndPaint(results) == \E endDraw \in results : Call("EndPaint", EndPaint(Self, endDraw))

CallPresent(presents, results) ==
    \E present1 \in presents, copy \in results :
        Call("Present", Present(Self, present1, copy))

CallInvalidate(rects) == \E sr \in rects : Call("Invalidate", Invalidate(Self, sr))

CallInvalidateCursor(coords) ==
    \E coord \in coords : Call("InvalidateCursor", InvalidateCursor(Self, coord))

CallInvalidateSystem(rects) ==
    \E rc \in rects : Call("InvalidateSystem", InvalidateSystem(Self, rc))

CallInvalidateSelection(selections) ==
    \E rectangles \in selections :
        Call("InvalidateSelection", InvalidateSelection(Self, rectangles))

CallInvalidateAll == Call("InvalidateAll", InvalidateAll(Self))

\* The accumulator is kept within max.
CallInvalidateScroll(deltas, max) ==
    \E coordDelta \in deltas :
        LET r == InvalidateScroll(Self, coordDelta)
        IN  /\ r.eng.invalidScroll.cx \in -max..max
            /\ r.eng.invalidScroll.cy \in -max..max
            /\ Call("InvalidateScroll", r)

CallPaintBackground ==
    \E deref \in NullCalls : Call("PaintBackground", PaintBackground(Self, deref))

CallPaintBufferLine ==
    \E cchLine \in RunLengths, complexity \in HResults, isTextSimple \in BOOLEAN,
       textLengthRead \in RunLengths, layout \in HResults, deref \in NullCalls :
        Call("PaintBufferLine",
             PaintBufferLine(Self, cchLine, complexity, isTextSimple, textLengthRead,
                             layout, deref))

CallPaintBufferGridLines ==
    \E lines \in GridLineSets, cchLine \in RunLengths, deref \in NullCalls :
        Call("PaintBufferGridLines", PaintBufferGridLines(Self, lines, cchLine, deref))

CallPaintSelection ==
    \E deref \in NullCalls : Call("PaintSelection", PaintSelection(Self, deref))

CallPaintCursor ==
    \E cursorType \in CursorStyles, fUseColor \in BOOLEAN, createBrush \in HResults,
       deref \in NullCalls :
        Call("PaintCursor", PaintCursor(Self, cursorType, fUseColor, createBrush, deref))

\* A paint call of operation op that gave result r, with the arguments it was
\* given and what it drew: the rectangles and the colour they were drawn in.
Drawing(op, r, args, drawn) ==
    /\ ~terminated
    /\ Becomes(r.eng)
    /\ last' = [op |-> op, hr |-> r.hr, ev |-> r.ev, args |-> args, drawn |-> drawn]
    /\ terminated' = r.terminated

CallUpdateDrawingBrushes ==
    \E colorForeground \in BrushColors, deref \in NullCalls :
        Call("UpdateDrawingBrushes", UpdateDrawingBrushes(Self, colorForeground, deref))

CallPaintSelectionAt ==
    \E rect \in CellRects, deref \in NullCalls :
        LET r == PaintSelection(Self, deref)
        IN  Drawing("PaintSelection", r, [rect |-> rect],
                    IF r.ev = <<>>
                    THEN <<>>
                    ELSE <<[call |-> "FillRectangle",
                            rect |-> SelectionRect(rect, glyphCell),
                            brush |-> SelectionColor(brushForeground)]>>)

CallPaintCursorAt ==
    \E coordCursor \in CursorCoords, ulCursorHeightPercent \in HeightPercents,
       fIsDoubleWidth \in BOOLEAN, cursorType \in CursorStyles, deref \in NullCalls :
        LET r == PaintCursor(Self, cursorType, FALSE, S_OK, deref)
        IN  Drawing("PaintCursor", r,
                    [coordCursor |-> coordCursor,
                     ulCursorHeightPercent |-> ulCursorHeightPercent,
                     fIsDoubleWidth |-> fIsDoubleWidth,
                     cursorType |-> cursorType],
                    IF r.ev = <<>>
                    THEN <<>>
                    ELSE <<[call |-> r.ev[Len(r.ev)],
                            rect |-> CursorRect(coordCursor, ulCursorHeightPercent,
                                                fIsDoubleWidth, cursorType, glyphCell),
                            brush |-> brushForeground]>>)

\* The session specification: every call in any order, every failure of the
\* device, the target window set, cleared and resized, and a small geometry.
Next ==
    \/ CallSetHwnd(Handles)
    \/ CallEnable
    \/ CallDisable
    \/ CallUpdateFont(SessionFonts, HResults)
    \/ CallStartPaint(ClientSizes, CreateOutcomes)
    \/ CallEndPaint(HResults)
    \/ CallPresent(PresentOutcomes, HResults)
    \/ CallInvalidate(SessionRects)
    \/ CallInvalidateAll
    \/ CallInvalidateScroll(SessionDeltas, MaxSessionScroll)

Spec == Init /\ [][Next]_vars

\* The tracker specification: the engine is set up and never disabled, the
\* device never fails, every frame is presented as soon as it has ended, the
\* window keeps its size, the font changes only between frames, and the
\* invalidate calls take the full geometry.
NextTracker ==
    \/ presentReady /\ CallPresent({"ok"}, {S_OK})
    \/ ~presentReady /\ CallSetHwnd({"hwnd"})
    \/ ~presentReady /\ CallEnable
    \/ ~presentReady /\ TrackerClear(Self) /\ CallUpdateFont(FontSizes, {S_OK})
    \/ ~presentReady /\ CallStartPaint(TrackerSizes, {"ok"})
    \/ ~presentReady /\ CallEndPaint({S_OK})
    \/ ~presentReady /\ CallInvalidate(CellRects)
    \/ ~presentReady /\ CallInvalidateCursor(CellCoords)
    \/ ~presentReady /\ CallInvalidateSystem(PixelRects)
    \/ ~presentReady /\ CallInvalidateSelection(Selections)
    \/ ~presentReady /\ CallInvalidateAll
    \/ ~presentReady /\ CallInvalidateScroll(CellDeltas, MaxScroll)

SpecTracker == Init /\ [][NextTracker]_vars

\* The paint specification: the session calls with every failure of the
\* device, and the paint calls made at any time, in a session or not.
NextPaint ==
    \/ CallSetHwnd({"hwnd"})
    \/ CallEnable
    \/ CallDisable
    \/ CallStartPaint(ClientSizes, CreateOutcomes)
    \/ CallEndPaint(HResults)
    \/ CallPresent(PresentOutcomes, HResults)
    \/ CallPaintBackground
    \/ CallPaintBufferLine
    \/ CallPaintBufferGridLines
    \/ CallPaintSelection
    \/ CallPaintCursor

SpecPaint == Init /\ [][NextPaint]_vars

\* The scroll specification: a set-up engine whose font changes at any time,
\* also within a frame, scrolled in every direction; the batch end may fail,
\* and every frame is presented as soon as it has ended.
NextScroll ==
    \/ presentReady /\ CallPresent({"ok"}, {S_OK})
    \/ ~presentReady /\ CallSetHwnd({"hwnd"})
    \/ ~presentReady /\ CallEnable
    \/ ~presentReady /\ CallUpdateFont(FontSizes, {S_OK})
    \/ ~presentReady /\ CallStartPaint(TrackerSizes, {"ok"})
    \/ ~presentReady /\ CallEndPaint(HResults)
    \/ ~presentReady /\ CallInvalidateScroll(CellDeltas, MaxScroll)

SpecScroll == Init /\ [][NextScroll]_vars

\* The present specification: a set-up engine on which frames are ended and
\* presented at any time, the copy after the presentation may fail, and the
\* invalidate calls arrive at any time, also while a plan is ready.
NextPresent ==
    \/ CallSetHwnd({"hwnd"})
    \/ CallEnable
    \/ TrackerClear(Self) /\ ~presentReady /\ CallUpdateFont(SessionFonts, {S_OK})
    \/ CallStartPaint(TrackerSizes, {"ok"})
    \/ CallEndPaint({S_OK})
    \/ CallPresent({"ok"}, HResults)
    \/ CallInvalidate(SessionRects)
    \/ CallInvalidateAll
    \/ CallInvalidateScroll(SessionDeltas, MaxSessionScroll)

SpecPresent == Init /\ [][NextPresent]_vars

\* The overlay specification: a set-up engine whose font and brush colour
\* change, on which the cursor, the selection and the grid lines are painted
\* with their geometry.
NextOverlay ==
    \/ CallSetHwnd({"hwnd"})
    \/ CallEnable
    \/ CallUpdateFont(OverlayFonts, {S_OK})
    \/ CallStartPaint(TrackerSizes, {"ok"})
    \/ CallEndPaint({S_OK})
    \/ CallUpdateDrawingBrushes
    \/ CallPaintBufferGridLines
    \/ CallPaintSelectionAt
    \/ CallPaintCursorAt

SpecOverlay == Init /\ [][NextOverlay]_vars

\* A call of operation op on the WddmCon engine that gave result r, with the
\* arguments it was given.
WddmCall(op, r, args) ==
    /\ ~terminated
    /\ ~wddm.destructed
    /\ wddm' = r.eng
    /\ last' = [op |-> op, hr |-> r.hr, ev |-> r.ev, args |-> args]
    /\ terminated' = r.terminated
    /\ UNCHANGED fields

CallWddmInitialize ==
    \E size \in DisplaySizes, fail \in InitializeFailures, ub \in UndefinedOutcomes :
        /\ fail.row < size.Height
        /\ WddmCall("Initialize", WddmInitialize(wddm, size, fail, ub),
                    [size |-> size, fail |-> fail])

CallWddmDestructor ==
    \E ub \in UndefinedOutcomes :
        WddmCall("~WddmConEngine", WddmDestructor(wddm, ub), [ub |-> ub])

CallWddmPaintBackground ==
    WddmCall("PaintBackground", WddmPaintBackground(wddm), [none |-> 0])

\* The line is painted at a coordinate inside the display.
CallWddmPaintBufferLine ==
    \E pwsLine \in Lines, update \in HResults, oob \in OverflowOutcomes :
        \E x \in 0..(wddm.displayWidth - 1), y \in 0..(wddm.displayHeight - 1) :
            LET coord == [X |-> x, Y |-> y]
            IN  WddmCall("PaintBufferLine",
                         WddmPaintBufferLine(wddm, pwsLine, Len(pwsLine), coord, update, oob),
                         [coord |-> coord, cchLine |-> Len(pwsLine),
                          written |-> WrittenCells(wddm, Len(pwsLine), coord)])

\* The WddmCon specification: the engine from its construction to its
\* destruction, Initialize failing at any step.
NextWddm ==
    \/ CallWddmInitialize
    \/ CallWddmDestructor
    \/ CallWddmPaintBackground
    \/ CallWddmPaintBufferLine

SpecWddm == Init /\ [][NextWddm]_vars

\* ------------------------------------------------------------------------
\* Properties of the paint session state machine
\* ------------------------------------------------------------------------

\* The last call was op and returned hr.
Returned(op, hr) == last.op = op /\ last.hr = hr

\* C1 (as stated): in every reachable state, StartPaint with a session open
\* returns E_NOT_VALID_STATE and EndPaint with no session open returns
\* E_INVALIDARG, and neither changes any field nor touches the device.
C1_SequencingErrorsAsStated ==
    /\ isPainting =>
           \A clientSize \in ClientSizes, outcome \in CreateOutcomes :
               StartPaint(Self, clientSize, outcome) = Result(Self, E_NOT_VALID_STATE, <<>>)
    /\ ~isPainting =>
           \A endDraw \in HResults :
               EndPaint(Self, endDraw) = Result(Self, E_INVALIDARG, <<>>)

\* C1 (amended): StartPaint with a session open returns E_NOT_VALID_STATE when
\* a target window is set and E_HANDLE when none is; EndPaint with no session
\* open returns E_INVALIDARG; none of these calls changes any field or touches
\* the device.
C1_SequencingErrors ==
    /\ isPainting =>
           \A clientSize \in ClientSizes, outcome \in CreateOutcomes :
               StartPaint(Self, clientSize, outcome) =
                   Result(Self,
                          IF hwndTarget = INVALID_HANDLE_VALUE
                          THEN E_HANDLE
                          ELSE E_NOT_VALID_STATE,
                          <<>>)
    /\ ~isPainting =>
           \A endDraw \in HResults :
               EndPaint(Self, endDraw) = Result(Self, E_INVALIDARG, <<>>)
    /\ Returned("StartPaint", E_NOT_VALID_STATE) => isPainting
    /\ Returned("EndPaint", E_INVALIDARG) => ~isPainting

\* C1 witness: StartPaint was refused in an open session that has dirt pending.
C1_Witness ==
    /\ Returned("StartPaint", E_NOT_VALID_STATE)
    /\ isPainting /\ isInvalidUsed /\ haveDeviceResources

\* C2: after every EndPaint that did not return E_INVALIDARG no session is
\* open, so an EndPaint that follows at once returns E_INVALIDARG and a
\* StartPaint that follows at once does not return E_NOT_VALID_STATE.
C2_EndPaintClosesSession ==
    (last.op = "EndPaint" /\ last.hr # E_INVALIDARG) =>
        /\ ~isPainting
        /\ \A endDraw \in HResults : EndPaint(Self, endDraw).hr = E_INVALIDARG
        /\ \A clientSize \in ClientSizes, outcome \in CreateOutcomes :
               StartPaint(Self, clientSize, outcome).hr # E_NOT_VALID_STATE

\* C3: after a successful Disable the engine is disabled, its device
\* resources are released and no paint session is open.
C3_DisableEndsSession ==
    Returned("Disable", S_OK) =>
        /\ ~isEnabled
        /\ ~haveDeviceResources
        /\ d2dRenderTarget = "null"
        /\ ~isPainting

\* StartPaint succeeds and opens a session (resource creation succeeding).
CanStartPaint(e) ==
    \E clientSize \in ClientSizes :
        LET r == StartPaint(e, clientSize, "ok")
        IN  r.hr = S_OK /\ r.eng.isPainting

\* Some continuation of at most n Enable, Disable and EndPaint calls (the
\* batch end succeeding) leads to a state in which StartPaint opens a session.
RECURSIVE CanResume(_, _)
CanResume(e, n) ==
    \/ CanStartPaint(e)
    \/ /\ n > 0
       /\ \E next \in {Enable(e).eng, Disable(e).eng, EndPaint(e, S_OK).eng} :
              CanResume(next, n - 1)

\* C4: from every reachable state with a target window set, some continuation
\* of Enable, Disable and EndPaint calls leads to a StartPaint that succeeds
\* and opens a session.
C4_SessionCanResume ==
    (hwndTarget # INVALID_HANDLE_VALUE /\ ~terminated) => CanResume(Self, MaxContinuation)

\* r lies within the display rectangle d.
Within(r, d) ==
    /\ d.left <= r.left /\ r.right <= d.right
    /\ d.top <= r.top /\ r.bottom <= d.bottom

\* C6: whenever the dirty region is marked used, the dirty rectangle lies
\* within the display rectangle.
C6_DirtyWithinDisplay == isInvalidUsed => Within(invalidRect, GetDisplayRect(Self))

\* C7: every EndPaint that passes the session check leaves the invalidation
\* tracker clear, whatever the batch end returned and whether or not the
\* device resources were there.
C7_EndPaintClearsTracker ==
    /\ (last.op = "EndPaint" /\ last.hr # E_INVALIDARG) => TrackerClear(Self)
    /\ isPainting => \A endDraw \in HResults : TrackerClear(EndPaint(Self, endDraw).eng)

\* C7 witness: an EndPaint whose batch end failed has returned; the resources
\* are released and the plan of the frame before it is still there.
C7_Witness ==
    /\ Returned("EndPaint", E_FAIL)
    /\ ~haveDeviceResources
    /\ presentOffset # ZeroPoint

\* C8: after an EndPaint whose batch end failed (it returns that failure), no
\* plan is ready, the device resources are released, no session is open, a
\* Present that follows presents nothing and changes nothing, and a StartPaint
\* that follows on the enabled engine with a target set creates the resources
\* before it begins the batch and opens the session.
C8_FailedEndPaint ==
    /\ (isPainting /\ haveDeviceResources) => EndPaint(Self, E_FAIL).hr = E_FAIL
    /\ Returned("EndPaint", E_FAIL) =>
        /\ ~presentReady
        /\ ~haveDeviceResources
        /\ d2dRenderTarget = "null"
        /\ ~isPainting
        /\ \A present1 \in PresentOutcomes, copy \in HResults :
               Present(Self, present1, copy) = Result(Self, S_OK, <<>>)
        /\ (isEnabled /\ hwndTarget # INVALID_HANDLE_VALUE) =>
               \A clientSize \in ClientSizes :
                   LET r == StartPaint(Self, clientSize, "ok")
                   IN  /\ r.hr = S_OK
                       /\ r.ev = <<"Create", "BeginDraw">>
                       /\ r.eng.isPainting
                       /\ r.eng.haveDeviceResources
                       /\ r.eng.displaySizePixels = clientSize

\* C8 witness: the batch end failed in a frame that followed a frame whose
\* plan had been made ready.
C8_Witness == Returned("EndPaint", E_FAIL) /\ presentDirty # ZeroRect

\* C10: at a successful EndPaint with a zero scroll accumulator the plan made
\* ready has one dirty rectangle, the dirty rectangle consumed, and neither a
\* scroll rectangle nor a scroll offset.
C10_PlanWithoutScroll ==
    (isPainting /\ haveDeviceResources /\ invalidScroll = ZeroSize) =>
        LET planned == EndPaint(Self, S_OK).eng
        IN  /\ planned.presentReady
            /\ planned.presentParams.DirtyRectsCount = 1
            /\ planned.presentParams.pDirtyRects = "presentDirty"
            /\ planned.presentDirty = invalidRect
            /\ planned.presentParams.pScrollRect = "nullptr"
            /\ planned.presentParams.pScrollOffset = "nullptr"

\* ------------------------------------------------------------------------
\* Properties of the invalidation tracker and of the presentation plan
\* ------------------------------------------------------------------------

\* An invalidate call: cells for Invalidate, pixels for InvalidateSystem.
InvalidateCalls ==
    [kind : {"cells"}, sr : CellRects] \cup [kind : {"pixels"}, rc : PixelRects]

\* The pixel rectangle a call supplies.
Supplied(call) ==
    IF call.kind = "cells" THEN CellsToPixels(call.sr, glyphCell) ELSE call.rc

\* The engine after the call.
After(e, call) ==
    IF call.kind = "cells"
    THEN Invalidate(e, call.sr).eng
    ELSE InvalidateSystem(e, call.rc).eng

\* C5: with the dirty region reset and the display that of the resources
\* created, after one call and after two calls, in either order, the dirty
\* rectangle is the bounding union of the supplied rectangles cut to the
\* display rectangle.
C5_DirtyIsClampedUnion ==
    (haveDeviceResources /\ ~isInvalidUsed) =>
        \A a \in InvalidateCalls, b \in InvalidateCalls :
            LET display == GetDisplayRect(Self)
                both == IntersectRect(UnionRect(Supplied(a), Supplied(b)), display)
            IN  /\ After(Self, a).invalidRect = IntersectRect(Supplied(a), display)
                /\ After(After(Self, a), b).invalidRect = both
                /\ After(After(Self, b), a).invalidRect = both

\* The pixels of a rectangle.
PixelsIn(r) ==
    {<<x, y>> : x \in r.left..(r.right - 1), y \in r.top..(r.bottom - 1)}

\* A non-empty set of pixels that fills its bounding rectangle.
IsRectangle(pixels) ==
    /\ pixels # {}
    /\ LET xs == {p[1] : p \in pixels}
           ys == {p[2] : p \in pixels}
           l == CHOOSE x \in xs : \A o \in xs : x <= o
           r == CHOOSE x \in xs : \A o \in xs : x >= o
           t == CHOOSE y \in ys : \A o \in ys : y <= o
           b == CHOOSE y \in ys : \A o \in ys : y >= o
       IN  PixelsIn(Rect(l, t, r + 1, b + 1)) = pixels

PlanClear(e) ==
    /\ ~e.presentReady
    /\ e.presentDirty = ZeroRect
    /\ e.presentScroll = ZeroRect
    /\ e.presentOffset = ZeroPoint
    /\ e.presentParams = ZeroParams

\* C11: with no plan ready Present returns S_OK, changes no field and makes
\* no call on the device; with a plan ready, a Present that completes leaves
\* the plan clear and every other field as it was, and a Present that follows
\* it changes nothing and makes no call on the device.
C11_PresentClearsPlan ==
    /\ ~presentReady =>
           \A present1 \in PresentOutcomes, copy \in HResults :
               Present(Self, present1, copy) = Result(Self, S_OK, <<>>)
    /\ presentReady =>
           LET r == Present(Self, "ok", S_OK)
           IN  /\ r.hr = S_OK
               /\ ~r.terminated
               /\ PlanClear(r.eng)
               /\ r.eng = ClearPlan(Self)
               /\ \A present1 \in PresentOutcomes, copy \in HResults :
                      Present(r.eng, present1, copy) = Result(r.eng, S_OK, <<>>)
    /\ (Returned("Present", S_OK) /\ ~terminated) => ~presentReady
    /\ (Returned("Present", S_OK) /\ last.ev # <<>>) => PlanClear(Self)

\* C11 witness: a Present has handed a plan to the display, copied the front
\* buffer back and cleared the plan.
C11_Witness ==
    /\ last.op = "Present"
    /\ last.ev = <<"Present1", "CopyResource">>
    /\ PlanClear(Self)

\* C12: once a Present has handed the plan to the display, the Present that
\* follows it does not hand it over again, whatever that first Present
\* returned.
C12_PlanPresentedOnce ==
    (last.op = "Present" /\ last.ev # <<>> /\ ~terminated) =>
        \A present1 \in PresentOutcomes, copy \in HResults :
            Present(Self, present1, copy).ev = <<>>

\* ------------------------------------------------------------------------
\* Properties of the paint calls
\* ------------------------------------------------------------------------

\* Some call of ev draws on the render target.
Draws(ev) == \E i \in 1..Len(ev) : ev[i] \in DrawCalls

PaintOps ==
    {"PaintBackground", "PaintBufferLine", "PaintBufferGridLines", "PaintSelection",
     "PaintCursor"}

\* C13: a paint call that has drawn on the render target was made in an open
\* session, and while no session is open no paint call makes a drawing call
\* on the render target.
C13_DrawsOnlyInSession ==
    /\ (last.op \in PaintOps /\ Draws(last.ev)) => isPainting
    /\ ~isPainting =>
           \A deref \in NullCalls :
               /\ ~Draws(PaintBackground(Self, deref).ev)
               /\ ~Draws(PaintSelection(Self, deref).ev)
               /\ \A cursorType \in CursorStyles :
                      ~Draws(PaintCursor(Self, cursorType, FALSE, S_OK, deref).ev)
               /\ \A lines \in GridLineSets, cchLine \in RunLengths :
                      ~Draws(PaintBufferGridLines(Self, lines, cchLine, deref).ev)
               /\ \A cchLine \in RunLengths, isTextSimple \in BOOLEAN :
                      ~Draws(PaintBufferLine(Self, cchLine, S_OK, isTextSimple, cchLine,
                                             S_OK, deref).ev)

\* ------------------------------------------------------------------------
\* Properties of InvalidateScroll
\* ------------------------------------------------------------------------

\* C14: in every state InvalidateScroll with the delta (0,0) returns S_OK and
\* leaves every field as it was: the dirty rectangle, the dirty-used flag and
\* the scroll accumulator among them.
C14_ZeroScrollIsNoOp ==
    LET r == InvalidateScroll(Self, [X |-> 0, Y |-> 0])
    IN  /\ r = Result(Self, S_OK, <<>>)
        /\ r.eng.invalidRect = invalidRect
        /\ r.eng.isInvalidUsed = isInvalidUsed
        /\ r.eng.invalidScroll = invalidScroll

\* C14 witness: InvalidateScroll was called with a zero delta (the
\* accumulator is zero and the glyph cell is not) on a dirty region that was
\* stored without being cut to the display.
C14_Witness ==
    /\ last.op = "InvalidateScroll"
    /\ glyphCell.cx > 0 /\ glyphCell.cy > 0
    /\ invalidScroll = ZeroSize
    /\ isInvalidUsed
    /\ ~Within(invalidRect, GetDisplayRect(Self))

\* C15: after InvalidateScroll with a non-zero delta the dirty rectangle is
\* the bounding union of the dirty rectangle moved by the delta in pixels and
\* cut to the display, of the rectangle revealed by the horizontal part of
\* the scroll and of the one revealed by its vertical part, where a revealed
\* rectangle is the display's pixels that the shifted display does not cover
\* and counts only when not empty; the dirty region is then marked used if it
\* was or if anything was revealed.  On a display of 80x24 cells with the
\* cells (0,0)-(10,1) dirty, scrolling by (+2,0) gives those cells moved right
\* by two joined with the strip of two columns at the left edge.
C15_ScrollMovesAndReveals ==
    /\ \A coordDelta \in CellDeltas \ {[X |-> 0, Y |-> 0]} :
           LET display == GetDisplayRect(Self)
               dx == coordDelta.X * glyphCell.cx
               dy == coordDelta.Y * glyphCell.cy
               moved == IntersectRect(OffsetRect(invalidRect, dx, dy), display)
               revealX == Reveal(display, dx, 0)
               revealY == Reveal(display, 0, dy)
               r == InvalidateScroll(Self, coordDelta).eng
           IN  /\ PixelsIn(revealX) = PixelsIn(display) \ PixelsIn(OffsetRect(display, dx, 0))
               /\ PixelsIn(revealY) = PixelsIn(display) \ PixelsIn(OffsetRect(display, 0, dy))
               /\ r.invalidRect = UnionRect(UnionRect(moved, revealX), revealY)
               /\ r.isInvalidUsed =
                      (isInvalidUsed \/ ~IsRectEmpty(revealX) \/ ~IsRectEmpty(revealY))
    /\ LET cell == [cx |-> 1, cy |-> 1]
           e == [DxEngine EXCEPT !.glyphCell = cell,
                                 !.displaySizePixels = [cx |-> 80, cy |-> 24],
                                 !.haveDeviceResources = TRUE]
           dirty == Invalidate(e, [Left |-> 0, Top |-> 0, Right |-> 10, Bottom |-> 1]).eng
           r == InvalidateScroll(dirty, [X |-> 2, Y |-> 0]).eng
       IN  /\ dirty.invalidRect = Rect(0, 0, 11, 2)
           /\ r.invalidRect = UnionRect(Rect(2, 0, 13, 2), Rect(0, 0, 2, 24))
           /\ r.isInvalidUsed

\* C15 witness: a scroll has moved a dirty rectangle and revealed a strip,
\* and the two together are a proper part of the display.
C15_Witness ==
    /\ last.op = "InvalidateScroll"
    /\ haveDeviceResources
    /\ invalidScroll # ZeroSize
    /\ isInvalidUsed
    /\ ~IsRectEmpty(invalidRect)
    /\ invalidRect # GetDisplayRect(Self)

\* The accumulator with the cell delta added, in pixels of the glyph cell now
\* in force.
Accumulated(coordDelta) ==
    [cx |-> invalidScroll.cx + coordDelta.X * glyphCell.cx,
     cy |-> invalidScroll.cy + coordDelta.Y * glyphCell.cy]

\* What each call would do to the accumulator in this state: InvalidateScroll
\* adds its delta, an EndPaint that passes the session check resets it, and
\* every other call leaves it.
ScrollAccumulatorKept ==
    /\ \A coordDelta \in CellDeltas :
           InvalidateScroll(Self, coordDelta).eng.invalidScroll = Accumulated(coordDelta)
    /\ \A endDraw \in HResults :
           EndPaint(Self, endDraw).eng.invalidScroll =
               IF isPainting THEN ZeroSize ELSE invalidScroll
    /\ Enable(Self).eng.invalidScroll = invalidScroll
    /\ Disable(Self).eng.invalidScroll = invalidScroll
    /\ InvalidateAll(Self).eng.invalidScroll = invalidScroll
    /\ \A hwnd \in Handles : SetHwnd(Self, hwnd).eng.invalidScroll = invalidScroll
    /\ \A cell \in FontSizes, hr \in HResults :
           UpdateFont(Self, cell, hr).eng.invalidScroll = invalidScroll
    /\ \A clientSize \in ClientSizes, outcome \in CreateOutcomes :
           StartPaint(Self, clientSize, outcome).eng.invalidScroll = invalidScroll
    /\ \A present1 \in PresentOutcomes, copy \in HResults :
           Present(Self, present1, copy).eng.invalidScroll = invalidScroll
    /\ \A sr \in SessionRects : Invalidate(Self, sr).eng.invalidScroll = invalidScroll
    /\ \A coord \in CellCoords :
           InvalidateCursor(Self, coord).eng.invalidScroll = invalidScroll
    /\ \A rc \in PixelRects : InvalidateSystem(Self, rc).eng.invalidScroll = invalidScroll
    /\ \A rectangles \in Selections :
           InvalidateSelection(Self, rectangles).eng.invalidScroll = invalidScroll

\* What a step does to the accumulator.
ScrollAccumulatorStep ==
    IF last'.op = "InvalidateScroll"
    THEN \E coordDelta \in CellDeltas : invalidScroll' = Accumulated(coordDelta)
    ELSE IF last'.op = "EndPaint" /\ last'.hr # E_INVALIDARG
         THEN invalidScroll' = ZeroSize
         ELSE invalidScroll' = invalidScroll

\* C16: the scroll accumulator is zero after construction and after every
\* EndPaint that passes the session check, every InvalidateScroll adds to it
\* its cell delta multiplied by the glyph cell in force at the call, and no
\* other call changes it: it is the sum of those products since the last such
\* EndPaint.
C16_ScrollAccumulatorIsSum ==
    /\ invalidScroll = ZeroSize
    /\ []ScrollAccumulatorKept
    /\ [][ScrollAccumulatorStep]_vars

\* C16 witness: scrolls in both directions were accumulated and are kept
\* after a change of the font within the frame.
C16_Witness ==
    /\ last.op = "UpdateFont"
    /\ isPainting
    /\ invalidScroll.cx = MaxScroll
    /\ invalidScroll.cy = -MaxScroll

\* ------------------------------------------------------------------------
\* Properties of the invalidate calls
\* ------------------------------------------------------------------------

\* C17: in every state InvalidateAll returns S_OK and leaves the dirty region
\* marked used with the dirty rectangle equal to the display rectangle, and
\* every other field as it was.
C17_InvalidateAllIsDisplay ==
    /\ InvalidateAll(Self) =
           Result([Self EXCEPT !.isInvalidUsed = TRUE, !.invalidRect = GetDisplayRect(Self)],
                  S_OK, <<>>)
    /\ last.op = "InvalidateAll" => (isInvalidUsed /\ invalidRect = GetDisplayRect(Self))

\* C17 witness: InvalidateAll has been called on the engine with its
\* resources created, in a frame that has scrolled.
C17_Witness ==
    /\ last.op = "InvalidateAll"
    /\ haveDeviceResources
    /\ invalidScroll # ZeroSize
    /\ invalidRect = GetDisplayRect(Self)
    /\ ~IsRectEmpty(invalidRect)

\* The dirty region of the two engines is the same.
SameDirty(a, b) == a.invalidRect = b.invalidRect /\ a.isInvalidUsed = b.isInvalidUsed

\* C18: in every state with the device resources created (the display size
\* known), each of Invalidate, InvalidateCursor, InvalidateSystem,
\* InvalidateSelection and InvalidateAll called a second time with the same
\* argument leaves the dirty rectangle and the dirty-used flag as the first
\* call left them.
C18_InvalidateIdempotent ==
    haveDeviceResources =>
        /\ \A sr \in CellRects :
               LET once == Invalidate(Self, sr).eng
               IN  SameDirty(Invalidate(once, sr).eng, once)
        /\ \A coord \in CellCoords :
               LET once == InvalidateCursor(Self, coord).eng
               IN  SameDirty(InvalidateCursor(once, coord).eng, once)
        /\ \A rc \in PixelRects :
               LET once == InvalidateSystem(Self, rc).eng
               IN  SameDirty(InvalidateSystem(once, rc).eng, once)
        /\ \A rectangles \in Selections :
               LET once == InvalidateSelection(Self, rectangles).eng
               IN  SameDirty(InvalidateSelection(once, rectangles).eng, once)
        /\ LET once == InvalidateAll(Self).eng
           IN  SameDirty(InvalidateAll(once).eng, once)

\* The pixel rectangle of an inclusive cell rectangle: each edge scaled by the
\* cell size, the right and bottom edges one cell further.
PixelsOfCells(sr, cell) ==
    Rect(sr.Left * cell.cx, sr.Top * cell.cy,
         (sr.Right + 1) * cell.cx, (sr.Bottom + 1) * cell.cy)

\* C19: in every state Invalidate of the inclusive cell rectangle (L,T,R,B)
\* does what InvalidateSystem of the pixel rectangle (L*w, T*h, (R+1)*w,
\* (B+1)*h) does, w and h being the glyph cell's width and height; on a reset
\* dirty region that rectangle is the dirty rectangle afterwards.
C19_CellsToPixels ==
    \A sr \in CellRects :
        /\ CellsToPixels(sr, glyphCell) = PixelsOfCells(sr, glyphCell)
        /\ Invalidate(Self, sr) = InvalidateSystem(Self, PixelsOfCells(sr, glyphCell))
        /\ ~isInvalidUsed =>
               Invalidate(Self, sr).eng.invalidRect = PixelsOfCells(sr, glyphCell)

\* C19 witness: with a glyph cell wider than high, Invalidate of a cell
\* rectangle that does not start at the origin was the first invalidate of a
\* frame.
C19_Witness ==
    /\ last.op = "Invalidate"
    /\ glyphCell.cx > glyphCell.cy
    /\ isInvalidUsed
    /\ \E sr \in CellRects :
           /\ sr.Left > 0
           /\ invalidRect = PixelsOfCells(sr, glyphCell)

\* C20: Enable on the enabled engine and Disable on the disabled engine
\* return E_NOT_VALID_STATE, change no field and touch no device object;
\* Enable on the disabled engine and Disable on the enabled engine return S_OK
\* and flip the enabled flag.
C20_EnableDisable ==
    /\ isEnabled =>
           /\ Enable(Self) = Result(Self, E_NOT_VALID_STATE, <<>>)
           /\ Disable(Self).hr = S_OK
           /\ ~Disable(Self).eng.isEnabled
    /\ ~isEnabled =>
           /\ Disable(Self) = Result(Self, E_NOT_VALID_STATE, <<>>)
           /\ Enable(Self) = Result([Self EXCEPT !.isEnabled = TRUE], S_OK, <<>>)
    /\ last.op = "Enable" => (last.hr \in {S_OK, E_NOT_VALID_STATE} /\ isEnabled)
    /\ last.op = "Disable" => (last.hr \in {S_OK, E_NOT_VALID_STATE} /\ ~isEnabled)

\* C20 witness: Enable was refused on the enabled engine in an open session.
C20_Witness ==
    /\ Returned("Enable", E_NOT_VALID_STATE)
    /\ isEnabled
    /\ isPainting
    /\ haveDeviceResources

\* ------------------------------------------------------------------------
\* Properties of StartPaint
\* ------------------------------------------------------------------------

\* C21: with no target window set, StartPaint returns E_HANDLE in every
\* state, a session open or not, the engine enabled or not, changes no field
\* and touches no device object.
C21_StartPaintNeedsTarget ==
    /\ hwndTarget = INVALID_HANDLE_VALUE =>
           \A clientSize \in ClientSizes, outcome \in CreateOutcomes :
               StartPaint(Self, clientSize, outcome) = Result(Self, E_HANDLE, <<>>)
    /\ Returned("StartPaint", E_HANDLE) => hwndTarget = INVALID_HANDLE_VALUE

\* C21 witness: StartPaint was refused for want of a target window on the
\* enabled engine in an open session.
C21_Witness ==
    /\ Returned("StartPaint", E_HANDLE)
    /\ isPainting
    /\ isEnabled
    /\ haveDeviceResources

\* C22: on the enabled engine with a target window set and no session open, a
\* StartPaint that finds the client size different from the display size
\* releases the device resources there are, creates them anew, records the
\* client size as the display size and only then begins the batch and opens
\* the session (when the creation fails no session opens and the resources
\* stay released); a StartPaint that finds the resources valid and the size
\* unchanged only begins the batch and opens the session.
C22_ResizeRecreates ==
    (isEnabled /\ hwndTarget # INVALID_HANDLE_VALUE /\ ~isPainting) =>
        \A clientSize \in ClientSizes :
            LET released == IF haveDeviceResources THEN <<"Release">> ELSE <<>>
                ok == StartPaint(Self, clientSize, "ok")
            IN  IF haveDeviceResources /\ clientSize = displaySizePixels
                THEN \A outcome \in CreateOutcomes :
                         StartPaint(Self, clientSize, outcome) =
                             Result([Self EXCEPT !.isPainting = TRUE,
                                                 !.d2dRenderTarget = "drawing"],
                                    S_OK, <<"BeginDraw">>)
                ELSE /\ ok = Result([Self EXCEPT !.isPainting = TRUE,
                                                 !.d2dRenderTarget = "drawing",
                                                 !.haveDeviceResources = TRUE,
                                                 !.displaySizePixels = clientSize,
                                                 !.brushForeground = ColorF("White", 100)],
                                    S_OK, released \o <<"Create", "BeginDraw">>)
                     /\ \A outcome \in CreateOutcomes \ {"ok"} :
                            LET failed == StartPaint(Self, clientSize, outcome)
                            IN  /\ failed.hr = E_FAIL
                                /\ failed.ev = released \o <<"Release">>
                                /\ ~failed.eng.isPainting
                                /\ ~failed.eng.haveDeviceResources
                                /\ failed.eng.d2dRenderTarget = "null"

\* C22 witness: a StartPaint has released the resources of the size before,
\* created those of the new size and opened the session.
C22_Witness ==
    /\ Returned("StartPaint", S_OK)
    /\ last.ev = <<"Release", "Create", "BeginDraw">>
    /\ isPainting
    /\ haveDeviceResources

\* ------------------------------------------------------------------------
\* Present against the invalidate calls
\* ------------------------------------------------------------------------

\* What Present hands to the display: the parameters and what they point to.
PresentedPlan(e) ==
    [ready |-> e.presentReady, params |-> e.presentParams, dirty |-> e.presentDirty,
     scroll |-> e.presentScroll, offset |-> e.presentOffset]

\* The invalidation tracker of e.
Tracker(e) ==
    [rect |-> e.invalidRect, used |-> e.isInvalidUsed, scroll |-> e.invalidScroll]

\* The invalidate calls with their arguments.
TrackerCalls ==
    [op : {"Invalidate"}, sr : CellRects]
        \cup [op : {"InvalidateCursor"}, coord : CellCoords]
        \cup [op : {"InvalidateSystem"}, rc : PixelRects]
        \cup [op : {"InvalidateSelection"}, rectangles : Selections]
        \cup [op : {"InvalidateScroll"}, coordDelta : CellDeltas]
        \cup [op : {"InvalidateAll"}]

\* The result of the invalidate call made on e.
Invalidating(e, call) ==
    CASE call.op = "Invalidate" -> Invalidate(e, call.sr)
      [] call.op = "InvalidateCursor" -> InvalidateCursor(e, call.coord)
      [] call.op = "InvalidateSystem" -> InvalidateSystem(e, call.rc)
      [] call.op = "InvalidateSelection" -> InvalidateSelection(e, call.rectangles)
      [] call.op = "InvalidateScroll" -> InvalidateScroll(e, call.coordDelta)
      [] call.op = "InvalidateAll" -> InvalidateAll(e)

\* C23: in every state, for every invalidate call and every Present that
\* comes back, Present leaves the dirty rectangle, the dirty-used flag and the
\* scroll accumulator as they were, the invalidate call leaves the plan as it
\* was, and Present made after the invalidate call returns the same, makes the
\* same device calls with the same plan and leaves the same fields as the
\* invalidate call made after Present.
C23_PresentCommutes ==
    \A copy \in HResults :
        LET presented == Present(Self, "ok", copy)
        IN  /\ Tracker(presented.eng) = Tracker(Self)
            /\ \A call \in TrackerCalls :
                   LET marked == Invalidating(Self, call)
                       later == Present(marked.eng, "ok", copy)
                       after == Invalidating(presented.eng, call)
                   IN  /\ PresentedPlan(marked.eng) = PresentedPlan(Self)
                       /\ later.hr = presented.hr
                       /\ later.ev = presented.ev
                       /\ after.hr = marked.hr
                       /\ later.eng = after.eng

\* C23 witness: a plan was presented while dirt and a scroll recorded after
\* the frame ended were pending, and they are still pending.
C23_Witness ==
    /\ last.op = "Present"
    /\ last.ev = <<"Present1", "CopyResource">>
    /\ isInvalidUsed
    /\ invalidScroll # ZeroSize
    /\ ~isPainting

\* ------------------------------------------------------------------------
\* Properties of PaintBufferLine
\* ------------------------------------------------------------------------

\* Call c is among the device calls ev.
Calls(ev, c) == \E i \in 1..Len(ev) : ev[i] = c

\* C24 (as stated): with the render target there, PaintBufferLine draws the
\* glyph run exactly when the query reports the text simple and the length
\* read equals the run length, draws the text layout in every other case, and
\* so draws the text on exactly one of the two paths, whatever the query and
\* the creation of the layout return.
C24_FastPathAsStated ==
    d2dRenderTarget # "null" =>
        \A cchLine \in RunLengths, complexity \in HResults, isTextSimple \in BOOLEAN,
           textLengthRead \in RunLengths, layout \in HResults, deref \in NullCalls :
            LET ev == PaintBufferLine(Self, cchLine, complexity, isTextSimple,
                                      textLengthRead, layout, deref).ev
                fast == Calls(ev, "DrawGlyphRun")
                slow == Calls(ev, "DrawTextLayout")
            IN  /\ fast <=> (isTextSimple /\ textLengthRead = cchLine)
                /\ slow <=> ~fast

\* C24 (amended): with the render target there and the complexity query
\* succeeding, PaintBufferLine fills the background and then draws one glyph
\* run, of one advance of the cell width per character, exactly when the query
\* reports the text simple and the length read equals the run length;
\* otherwise it creates the text layout and, that succeeding, draws it; a
\* failed query or a failed creation of the layout is returned with only the
\* background drawn.  No field changes.
C24_FastPath ==
    d2dRenderTarget # "null" =>
        \A cchLine \in RunLengths, complexity \in HResults, isTextSimple \in BOOLEAN,
           textLengthRead \in RunLengths, layout \in HResults, deref \in NullCalls :
            LET r == PaintBufferLine(Self, cchLine, complexity, isTextSimple,
                                     textLengthRead, layout, deref)
                simple == isTextSimple /\ textLengthRead = cchLine
            IN  /\ r.eng = Self
                /\ r.ev[1] = "FillRectangle"
                /\ ~SUCCEEDED(complexity) =>
                       r = Result(Self, complexity, <<"FillRectangle">>)
                /\ (SUCCEEDED(complexity) /\ simple) =>
                       /\ r = Result(Self, S_OK, <<"FillRectangle", "DrawGlyphRun">>)
                       /\ Len(GlyphAdvances(cchLine, glyphCell)) = cchLine
                       /\ \A i \in 1..cchLine :
                              GlyphAdvances(cchLine, glyphCell)[i] = glyphCell.cx
                /\ (SUCCEEDED(complexity) /\ ~simple /\ SUCCEEDED(layout)) =>
                       r = Result(Self, S_OK, <<"FillRectangle", "DrawTextLayout">>)
                /\ (SUCCEEDED(complexity) /\ ~simple /\ ~SUCCEEDED(layout)) =>
                       r = Result(Self, layout, <<"FillRectangle">>)

\* C24 witness: in an open session a line was drawn as a text layout.
C24_Witness ==
    /\ last.op = "PaintBufferLine"
    /\ last.ev = <<"FillRectangle", "DrawTextLayout">>
    /\ isPainting
    /\ d2dRenderTarget = "drawing"

\* ------------------------------------------------------------------------
\* Properties of the overlay painters
\* ------------------------------------------------------------------------

\* The cursor PaintCursor has just drawn, if it drew one.
CursorDrawn == last.op = "PaintCursor" /\ last.drawn # <<>>

\* The cell the cursor is painted in, double-width or not, in pixels.
CursorCell(coord, fIsDoubleWidth) ==
    LET w == glyphCell.cx
        h == glyphCell.cy
    IN  Rect(coord.X * w, coord.Y * h,
             coord.X * w + w + (IF fIsDoubleWidth THEN w ELSE 0), coord.Y * h + h)

\* The height in pixels of a Legacy cursor of the given percentage, the
\* percentage first brought into the range.
LegacyHeight(percent) ==
    (glyphCell.cy * Max(s_ulMinCursorHeightPercent, Min(percent, s_ulMaxCursorHeightPercent)))
        \div 100

C26_CursorGeometry ==
    CursorDrawn =>
        LET rect == last.drawn[1].rect
            style == last.args.cursorType
            x == last.args.coordCursor.X
            y == last.args.coordCursor.Y
            w == glyphCell.cx
            h == glyphCell.cy
            base == Rect(x * w, y * h,
                         IF last.args.fIsDoubleWidth THEN x * w + w + w ELSE x * w + w,
                         y * h + h)
        IN  /\ style = "VerticalBar" =>
                   rect = Rect(base.left, base.top, base.left + 1, base.bottom)
            /\ style = "Underscore" =>
                   rect = Rect(base.left, base.bottom - 1, base.right, base.bottom)
            /\ style \in {"EmptyBox", "FullBox"} => rect = base
            /\ last.drawn[1].call =
                   (IF style = "EmptyBox" THEN "DrawRectangle" ELSE "FillRectangle")

\* A double-width vertical bar was drawn with a glyph cell two pixels wide:
\* it is one pixel wide, not four.
C26_Witness ==
    /\ CursorDrawn
    /\ last.args.cursorType = "VerticalBar"
    /\ last.args.fIsDoubleWidth
    /\ glyphCell.cx = 2
    /\ last.drawn[1].rect.right = last.drawn[1].rect.left + 1
    /\ last.drawn[1].call = "FillRectangle"

\* C27: in every state PaintSelection and PaintBufferGridLines, whatever
\* their arguments and however they end, leave the colour of the foreground
\* brush as it is; when they draw, they set the colour before drawing and set
\* it again after.
C27_BrushColorRestored ==
    \A deref \in NullCalls :
        /\ LET r == PaintSelection(Self, deref)
           IN  /\ r.eng.brushForeground = brushForeground
               /\ Draws(r.ev) => r.ev[1] = "SetColor" /\ r.ev[Len(r.ev)] = "SetColor"
        /\ \A lines \in GridLineSets, cchLine \in RunLengths :
               LET r == PaintBufferGridLines(Self, lines, cchLine, deref)
               IN  /\ r.eng.brushForeground = brushForeground
                   /\ r.ev # <<>> => r.ev[1] = "SetColor" /\ r.ev[Len(r.ev)] = "SetColor"

\* Grid lines have been drawn with a foreground brush that had been made
\* red, and the brush is red after.
C27_Witness ==
    /\ last.op = "PaintBufferGridLines"
    /\ Draws(last.ev)
    /\ brushForeground = ColorF("Red", 100)

\* C30: the rectangle PaintSelection has filled for the inclusive cell
\* rectangle r is the pixel rectangle Invalidate(r) marks, and for a
\* rectangle of one cell it is the rectangle of the FullBox cursor of that
\* cell.
C30_SelectionGeometry ==
    last.op = "PaintSelection" /\ last.drawn # <<>> =>
        LET r == last.args.rect
            filled == last.drawn[1].rect
        IN  /\ filled = CellsToPixels(r, glyphCell)
            /\ r.Left = r.Right /\ r.Top = r.Bottom =>
                   filled = CursorRect([X |-> r.Left, Y |-> r.Top], 100, FALSE,
                                       "FullBox", glyphCell)

\* ------------------------------------------------------------------------
\* Properties of the accumulated scroll
\* ------------------------------------------------------------------------

\* The pixels of the display of size, as points.
DisplayPixels(size) == {[x |-> x, y |-> y] : x \in 0..(size.cx - 1), y \in 0..(size.cy - 1)}

\* The display pixels that a scroll by total has uncovered: those whose
\* source, the pixel total before them, is not a pixel of the display.
Uncovered(size, total) ==
    {p \in DisplayPixels(size) :
        [x |-> p.x - total.cx, y |-> p.y - total.cy] \notin DisplayPixels(size)}

PixelInRect(p, rc) ==
    /\ rc.left <= p.x /\ p.x < rc.right
    /\ rc.top <= p.y /\ p.y < rc.bottom

\* The dirty rectangle of an engine holds every pixel its accumulated scroll
\* has uncovered.
UncoveredIsDirty(size, total, used, rc) ==
    \A p \in Uncovered(size, total) : used /\ PixelInRect(p, rc)

\* C28: a call that leaves the display as it is, made when the dirty
\* rectangle holds every display pixel whose source under the accumulated
\* scroll lies outside the display, leaves it holding every such pixel of
\* the new accumulated scroll; with nothing accumulated no pixel is such a
\* pixel, so after every sequence of InvalidateScroll and other invalidate
\* calls since the reset, on one display, the uncovered area is dirty, the
\* corner of a scroll along both axes too.
C28_UncoveredIsDirty ==
    [][(/\ displaySizePixels' = displaySizePixels
        /\ UncoveredIsDirty(displaySizePixels, invalidScroll, isInvalidUsed, invalidRect))
       => UncoveredIsDirty(displaySizePixels', invalidScroll', isInvalidUsed', invalidRect')]_vars

\* The scroll has come to one pixel along both axes on a display of 2x2
\* pixels: the left column and the top row, the corner with them, are
\* uncovered and dirty.
C28_Witness ==
    /\ last.op = "InvalidateScroll"
    /\ displaySizePixels = [cx |-> 2, cy |-> 2]
    /\ invalidScroll = [cx |-> 1, cy |-> 1]
    /\ Uncovered(displaySizePixels, invalidScroll) =
           DisplayPixels(displaySizePixels) \ {[x |-> 1, y |-> 1]}
    /\ UncoveredIsDirty(displaySizePixels, invalidScroll, isInvalidUsed, invalidRect)

\* ------------------------------------------------------------------------
\* Properties of a failed creation of the device resources
\* ------------------------------------------------------------------------

\* C29: in every state in which StartPaint has to create the device
\* resources, a StartPaint whose creation fails returns the failure, opens no
\* session, leaves the resources released (flag false, no render target, no
\* brush) and the dirty rectangle, its flag and the scroll accumulator as
\* they were; a StartPaint after it, whatever the client size, creates the
\* resources again, opening the session when that succeeds and failing in
\* the same way when it does not.
C29_FailedCreation ==
    (isEnabled /\ hwndTarget # INVALID_HANDLE_VALUE /\ ~isPainting) =>
        \A clientSize \in {size \in ClientSizes :
                               ~haveDeviceResources \/ size # displaySizePixels},
           outcome \in CreateOutcomes \ {"ok"} :
            LET failed == StartPaint(Self, clientSize, outcome)
            IN  /\ ~SUCCEEDED(failed.hr)
                /\ ~failed.eng.isPainting
                /\ ~failed.eng.haveDeviceResources
                /\ failed.eng.d2dRenderTarget = "null"
                /\ failed.eng.brushForeground = NoBrush
                /\ "BeginDraw" \notin {failed.ev[i] : i \in 1..Len(failed.ev)}
                /\ failed.eng.invalidRect = invalidRect
                /\ failed.eng.isInvalidUsed = isInvalidUsed
                /\ failed.eng.invalidScroll = invalidScroll
                /\ \A later \in ClientSizes :
                       LET again == StartPaint(failed.eng, later, "ok")
                           never == StartPaint(failed.eng, later, outcome)
                       IN  /\ again.hr = S_OK
                           /\ again.ev = <<"Create", "BeginDraw">>
                           /\ again.eng.isPainting
                           /\ again.eng.haveDeviceResources
                           /\ again.eng.displaySizePixels = later
                           /\ never.hr = failed.hr
                           /\ ~never.eng.isPainting
                           /\ ~never.eng.haveDeviceResources

\* A StartPaint has failed in creating the resources for a window that had
\* resources before, with a region marked and a scroll accumulated: the old
\* resources and the half-made ones are released, and the region and the
\* scroll are still there.
C29_Witness ==
    /\ Returned("StartPaint", E_FAIL)
    /\ last.ev = <<"Release", "Release">>
    /\ ~isPainting /\ ~haveDeviceResources
    /\ isInvalidUsed
    /\ invalidScroll # ZeroSize

\* ------------------------------------------------------------------------
\* Properties of the plan and the resources it is presented on
\* ------------------------------------------------------------------------

\* C31: in every state in which a presentation plan is ready the device
\* resources are valid.
C31_PlanHasResources == presentReady => haveDeviceResources

\* The batch of the render target after the device calls ev[i..], batch being
\* "open" or "closed" before them: "bad" when a batch is begun on a target
\* whose batch is open, ended on a target that has none open (or on none), or
\* when a target is released with its batch open.
RECURSIVE BatchAfter(_, _, _)
BatchAfter(ev, i, batch) ==
    IF i > Len(ev) \/ batch = "bad"
    THEN batch
    ELSE BatchAfter(ev, i + 1,
                    CASE ev[i] = "BeginDraw" -> IF batch = "closed" THEN "open" ELSE "bad"
                      [] ev[i] = "EndDraw" -> IF batch = "open" THEN "closed" ELSE "bad"
                      [] ev[i] = "Release" -> IF batch = "closed" THEN "closed" ELSE "bad"
                      [] OTHER -> batch)

\* The batch of the render target the engine holds, if it holds one.
Batch(target) == IF target = "drawing" THEN "open" ELSE "closed"

\* C32: the device calls of every call, taken from the batch state before
\* it, begin a batch only on a target that has none open, end one only on a
\* target that has one open, and release a target only with its batch ended;
\* and they leave the batch as the engine then holds it.  So over every
\* sequence of calls each begin-draw is followed by exactly one end-draw on
\* the same target before the target is released.
C32_BatchesBalanced ==
    [][BatchAfter(last'.ev, 1, Batch(d2dRenderTarget)) = Batch(d2dRenderTarget')]_vars

\* A Disable in an open session has ended the batch and then released the
\* target.
C32_Witness ==
    /\ last.op = "Disable"
    /\ last.ev = <<"EndDraw", "Release">>
    /\ isPainting
    /\ d2dRenderTarget = "null"

\* C33: in every state in which the engine is disabled, has a target window
\* and no open session, StartPaint returns S_OK, makes no device call and
\* leaves every field as it is (no session, no resources, display size, dirty
\* region, scroll accumulator and plan unchanged), and the EndPaint after it
\* returns E_INVALIDARG and leaves every field as it is too, the dirty
\* region and the scroll accumulator with them.
C33_DisabledStartPaint ==
    (~isEnabled /\ hwndTarget # INVALID_HANDLE_VALUE /\ ~isPainting) =>
        \A clientSize \in ClientSizes, outcome \in CreateOutcomes, endDraw \in HResults :
            LET started == StartPaint(Self, clientSize, outcome)
                ended == EndPaint(started.eng, endDraw)
            IN  /\ started = Result(Self, S_OK, <<>>)
                /\ ~started.eng.isPainting
                /\ ended.hr = E_INVALIDARG
                /\ ended.ev = <<>>
                /\ ended.eng = Self

\* StartPaint has returned S_OK on a disabled engine that has a target and a
\* region marked and a scroll accumulated: no session is open.
C33_Witness ==
    /\ Returned("StartPaint", S_OK)
    /\ last.ev = <<>>
    /\ ~isEnabled /\ hwndTarget # INVALID_HANDLE_VALUE
    /\ ~isPainting /\ ~haveDeviceResources
    /\ isInvalidUsed /\ invalidScroll # ZeroSize

\* C34: in every state with a plan ready that carries the scroll fields, the
\* plan's scroll rectangle and its dirty rectangle have no pixel in common.
C34_ScrollAndDirtyDisjoint ==
    (presentReady /\ presentParams.pScrollRect # "nullptr") =>
        IsRectEmpty(IntersectRect(presentScroll, presentDirty))

\* ------------------------------------------------------------------------
\* Properties of the dirty rectangle in cells
\* ------------------------------------------------------------------------

\* The pixels of the cell of column x and row y.
CellPixels(x, y, cell) == Rect(x * cell.cx, y * cell.cy, (x + 1) * cell.cx, (y + 1) * cell.cy)

\* C35: in every state with a glyph cell that is not zero, every cell that
\* has a pixel in common with the dirty rectangle lies within the inclusive
\* cell rectangle GetDirtyRectInChars returns.
C35_DirtyCellsCovered ==
    (glyphCell.cx > 0 /\ glyphCell.cy > 0) =>
        LET r == GetDirtyRectInChars(Self)
        IN  \A x \in -2..4, y \in -2..4 :
                ~IsRectEmpty(IntersectRect(CellPixels(x, y, glyphCell), invalidRect)) =>
                    /\ r.Left <= x /\ x <= r.Right
                    /\ r.Top <= y /\ y <= r.Bottom

\* ------------------------------------------------------------------------
\* Properties of the WddmCon engine
\* ------------------------------------------------------------------------

\* C36: every cell a PaintBufferLine at a coordinate inside the display has
\* written has its column in [0, displayWidth) and its row in
\* [0, displayHeight), and no memory outside the rows' buffers has been
\* written.
C36_WritesInsideRow ==
    /\ ~wddm.stray
    /\ last.op = "PaintBufferLine" =>
           \A cell \in last.args.written :
               /\ 0 <= cell.col /\ cell.col < wddm.displayWidth
               /\ 0 <= cell.row /\ cell.row < wddm.displayHeight

\* C37: no resource Initialize acquired is ever released a second time,
\* none is released that was not acquired, and once the engine is destructed
\* every one of them has been released.
C37_ReleasedExactlyOnce ==
    /\ wddm.releasedTwice = {}
    /\ wddm.released \subseteq wddm.acquired
    /\ wddm.destructed => wddm.acquired \subseteq wddm.released

\* C38: in every state GetDisplaySize returns the rectangle with left = 0,
\* top = 0, right = the display width and bottom = the display height that
\* Initialize recorded.
C38_DisplaySize ==
    WddmGetDisplaySize(wddm) = Rect(0, 0, wddm.displayWidth, wddm.displayHeight)

====
